---- MODULE Spec2Model ----
(***************************************************************************)
(* Model of src/trace_processor/metrics/metrics.cc: the descriptor-driven  *)
(* ProtoBuilder, the RepeatedFieldBuilder, and ComputeMetrics.             *)
(*                                                                         *)
(* 64-bit integers are kept at full width as four 16-bit limbs, least      *)
(* significant first, so that truncation to 32 bits and zig-zag coding are *)
(* computed as the code computes them.  A byte blob is the sequence of     *)
(* wire entries it encodes; a blob is empty iff it has no entry.           *)
(***************************************************************************)
EXTENDS Integers, Sequences, FiniteSets, TLC

(***************************************************************************)
(* 64-bit integers                                                         *)
(***************************************************************************)
LimbBase == 2^16

LimbHalf == 2^15

I64Zero == <<0, 0, 0, 0>>

I64One == <<1, 0, 0, 0>>

I64MinusOne == <<65535, 65535, 65535, 65535>>

\* 2^32 + 1: outside every 32-bit range, low word 1
I64Big == <<1, 0, 1, 0>>

\* static_cast<int32_t>(int64_t): the low two limbs, read as two's complement
CastInt32(v) ==
  IF v[2] >= LimbHalf THEN (v[2] - LimbBase) * LimbBase + v[1]
  ELSE v[2] * LimbBase + v[1]

\* sign extension of a 32-bit integer to 64 bits
FromInt32(n) ==
  IF n >= 0 THEN <<n % LimbBase, n \div LimbBase, 0, 0>>
  ELSE <<n % LimbBase, (n \div LimbBase) % LimbBase, 65535, 65535>>

\* zero extension of the low 32 bits
LowWord(v) == <<v[1], v[2], 0, 0>>

IsNegative(v) == v[4] >= LimbHalf

\* v << 1 on 64 bits
ShiftLeft1(v) ==
  <<(2 * v[1]) % LimbBase,
    (2 * v[2] + v[1] \div LimbHalf) % LimbBase,
    (2 * v[3] + v[2] \div LimbHalf) % LimbBase,
    (2 * v[4] + v[3] \div LimbHalf) % LimbBase>>

\* logical v >> 1 on 64 bits
ShiftRight1(v) ==
  <<v[1] \div 2 + (v[2] % 2) * LimbHalf,
    v[2] \div 2 + (v[3] % 2) * LimbHalf,
    v[3] \div 2 + (v[4] % 2) * LimbHalf,
    v[4] \div 2>>

\* bitwise complement (xor with all ones)
Complement(v) == <<65535 - v[1], 65535 - v[2], 65535 - v[3], 65535 - v[4]>>

\* proto_utils::ZigZagEncode: (v << 1) ^ (v >> 63)
ZigZagEncode(v) == IF IsNegative(v) THEN Complement(ShiftLeft1(v)) ELSE ShiftLeft1(v)

\* proto_utils::ZigZagDecode: (z >> 1) ^ -(z & 1)
ZigZagDecode(z) == IF z[1] % 2 = 1 THEN Complement(ShiftRight1(z)) ELSE ShiftRight1(z)

(***************************************************************************)
(* Doubles: a 53-bit significand as <<upper 24 bits, lower 29 bits>>; a    *)
(* float keeps the upper 24 bits only.                                     *)
(***************************************************************************)
FloatHalfUlp == 2^28

DblZero == <<0, 0>>

\* static_cast<float>(double): round to nearest, ties to even
CastFloat(d) ==
  IF d[2] > FloatHalfUlp \/ (d[2] = FloatHalfUlp /\ d[1] % 2 = 1)
  THEN <<d[1] + 1, 0>> ELSE <<d[1], 0>>

(***************************************************************************)
(* Wire entries (protozero::Message)                                       *)
(***************************************************************************)
Entry(num, wt, k, i, d, s, m) ==
  [num |-> num, wt |-> wt, k |-> k, int |-> i, dbl |-> d, str |-> s, msg |-> m]

\* Message::AppendVarInt(field_id, value): the value's 64-bit pattern
AppendVarInt(message, num, v) ==
  Append(message, Entry(num, "varint", "int", v, DblZero, "", <<>>))

\* Message::AppendSignedVarInt(field_id, value)
AppendSignedVarInt(message, num, v) == AppendVarInt(message, num, ZigZagEncode(v))

\* Message::AppendFixed<T>(field_id, value): the width is sizeof(T)
AppendFixed(message, num, bits, k, i, d) ==
  Append(message,
         Entry(num, IF bits = 32 THEN "fixed32" ELSE "fixed64", k, i, d, "", <<>>))

\* Message::AppendBytes(field_id, data, size) with text
AppendText(message, num, s) ==
  Append(message, Entry(num, "len", "str", I64Zero, DblZero, s, <<>>))

\* Message::AppendBytes(field_id, data, size) with an encoded message
AppendPayload(message, num, m) ==
  IF m = <<>> THEN AppendText(message, num, "")
  ELSE Append(message, Entry(num, "len", "msg", I64Zero, DblZero, "", m))

(***************************************************************************)
(* Decoding (protozero::TypedProtoDecoder): a field is looked up by its    *)
(* number and the last entry wins.                                         *)
(***************************************************************************)
HasField(blob, num) == \E i \in 1..Len(blob) : blob[i].num = num

LastField(blob, num) ==
  blob[CHOOSE i \in 1..Len(blob) :
         /\ blob[i].num = num
         /\ \A j \in (i + 1)..Len(blob) : blob[j].num # num]

\* the ConstBytes of a length-delimited entry, as the blob it holds
BytesOf(e) == IF e.k = "msg" THEN e.msg ELSE <<>>

\* ConstBytes::size == 0
BytesEmpty(e) == e.k # "msg" /\ e.str = ""

\* proto_utils::kMaxMessageLength: 256 MB - 1
kMaxMessageLength == 268435455

VarIntSize(v) ==
  IF v[4] > 0 THEN 10 ELSE IF v[3] > 0 THEN 7 ELSE IF v[2] > 0 THEN 5
  ELSE IF v[1] >= 128 THEN 3 ELSE 1

RECURSIVE BlobSize(_)
\* the number of bytes of an encoded blob
BlobSize(blob) ==
  IF blob = <<>> THEN 0
  ELSE LET e == Head(blob)
           body == CASE e.wt = "varint" -> VarIntSize(e.int)
                     [] e.wt = "fixed32" -> 4
                     [] e.wt = "fixed64" -> 8
                     [] OTHER -> 1 + (IF e.k = "msg" THEN BlobSize(e.msg) ELSE Len(e.str))
       IN 1 + body + BlobSize(Tail(blob))

(***************************************************************************)
(* FieldDescriptorProto::Type, and the envelope messages of                *)
(* metrics_impl.proto                                                      *)
(***************************************************************************)
TypeNumber(type) ==
  CASE type = "TYPE_DOUBLE" -> 1 [] type = "TYPE_FLOAT" -> 2
    [] type = "TYPE_INT64" -> 3 [] type = "TYPE_UINT64" -> 4
    [] type = "TYPE_INT32" -> 5 [] type = "TYPE_FIXED64" -> 6
    [] type = "TYPE_FIXED32" -> 7 [] type = "TYPE_BOOL" -> 8
    [] type = "TYPE_STRING" -> 9 [] type = "TYPE_MESSAGE" -> 11
    [] type = "TYPE_BYTES" -> 12 [] type = "TYPE_UINT32" -> 13
    [] type = "TYPE_ENUM" -> 14 [] type = "TYPE_SFIXED32" -> 15
    [] type = "TYPE_SFIXED64" -> 16 [] type = "TYPE_SINT32" -> 17
    [] type = "TYPE_SINT64" -> 18

\* ProtoBuilderResult { is_repeated = 1; single = 2; repeated = 3 }
kIsRepeatedFieldNumber == 1

kSingleFieldNumber == 2

kRepeatedFieldNumber == 3

\* SingleBuilderResult { type = 1; type_name = 2; protobuf = 3 }
kTypeFieldNumber == 1

kTypeNameFieldNumber == 2

kProtobufFieldNumber == 3

\* RepeatedBuilderResult { value = 1 }
kValueFieldNumber == 1

\* RepeatedBuilderResult.Value { int_value = 1; string_value = 2;
\*                               double_value = 3; bytes_value = 4 }
kIntValueFieldNumber == 1

kStringValueFieldNumber == 2

kDoubleValueFieldNumber == 3

kBytesValueFieldNumber == 4

\* ProtoBuilderResult::Decoder::is_repeated()
DecodeIsRepeated(blob) ==
  HasField(blob, kIsRepeatedFieldNumber)
    /\ LastField(blob, kIsRepeatedFieldNumber).int # I64Zero

\* ProtoBuilderResult::Decoder::single() / repeated(): absent reads as empty
DecodeBytes(blob, num) == IF HasField(blob, num) THEN BytesOf(LastField(blob, num)) ELSE <<>>

(***************************************************************************)
(* SqlValue                                                                *)
(***************************************************************************)
SqlValue(type, l, d, s, b) ==
  [type |-> type, long_value |-> l, double_value |-> d, string_value |-> s,
   bytes_value |-> b]

Null == SqlValue("kNull", I64Zero, DblZero, "", <<>>)

Long(v) == SqlValue("kLong", v, DblZero, "", <<>>)

Double(d) == SqlValue("kDouble", I64Zero, d, "", <<>>)

String(s) == SqlValue("kString", I64Zero, DblZero, s, <<>>)

Bytes(b) == SqlValue("kBytes", I64Zero, DblZero, "", b)

(***************************************************************************)
(* Descriptors (ProtoDescriptor, FieldDescriptor, DescriptorPool)          *)
(***************************************************************************)
Field(name, number, type, rep, resolved) ==
  [name |-> name, number |-> number, type |-> type, is_repeated |-> rep,
   resolved_type_name |-> resolved]

NoField == Field("", 0, "", FALSE, "")

\* ProtoDescriptor::FindFieldByName: exact match, NoField for nullptr
FindFieldByName(descriptor, field_name) ==
  IF \E i \in 1..Len(descriptor.fields) : descriptor.fields[i].name = field_name
  THEN descriptor.fields[CHOOSE i \in 1..Len(descriptor.fields) :
                           descriptor.fields[i].name = field_name]
  ELSE NoField

\* the enum descriptors of the pool: type name -> (member name -> value)
EnumColor == [name |-> ".pkg.Color", members |-> {<<"FOO", 1>>, <<"BAR", 2>>}]

PoolEnums == {EnumColor}

\* DescriptorPool::FindDescriptorIdx
FindDescriptorIdx(type_name) == \E e \in PoolEnums : e.name = type_name

PoolDescriptor(type_name) == CHOOSE e \in PoolEnums : e.name = type_name

\* ProtoDescriptor::FindEnumString(int32_t)
FindEnumString(enum_desc, n) == \E m \in enum_desc.members : m[2] = n

\* ProtoDescriptor::FindEnumValue(string)
FindEnumValue(enum_desc, s) == \E m \in enum_desc.members : m[1] = s

EnumValueOf(enum_desc, s) == (CHOOSE m \in enum_desc.members : m[1] = s)[2]

(***************************************************************************)
(* ProtoBuilder.  Every Append operator takes the builder's buffer         *)
(* (message_) and descriptor (descriptor_) and yields the returned status  *)
(* with the buffer the call leaves behind.                                 *)
(***************************************************************************)
OkStatus(message) == [status |-> "ok", message |-> message]

ErrStatus(text, message) == [status |-> text, message |-> message]

\* a validation that takes a message of any type name
ValidateSingleNonEmptyMessage_AnyTypeName(blob, schema_type, message_type) ==
  LET single == DecodeBytes(blob, kSingleFieldNumber)
      type == IF HasField(single, kTypeFieldNumber)
              THEN LowWord(LastField(single, kTypeFieldNumber).int) ELSE I64Zero
  IN  IF BlobSize(blob) > kMaxMessageLength
        THEN [status |-> "Message has size larger than the maximum", out |-> <<>>]
      ELSE IF DecodeIsRepeated(blob)
        THEN [status |-> "Cannot handle nested repeated messages", out |-> <<>>]
      ELSE IF type # FromInt32(schema_type)
        THEN [status |-> "Message field has wrong wire type", out |-> <<>>]
      ELSE IF ~HasField(single, kProtobufFieldNumber)
        THEN [status |-> "Message has no proto bytes", out |-> <<>>]
      ELSE IF BytesEmpty(LastField(single, kProtobufFieldNumber))
        THEN [status |-> "Field has zero size", out |-> <<>>]
      ELSE [status |-> "ok", out |-> BytesOf(LastField(single, kProtobufFieldNumber))]

\* a validation that takes a payload of length zero
ValidateSingleNonEmptyMessage_AcceptsEmpty(blob, schema_type, message_type) ==
  LET single == DecodeBytes(blob, kSingleFieldNumber)
      type == IF HasField(single, kTypeFieldNumber)
              THEN LowWord(LastField(single, kTypeFieldNumber).int) ELSE I64Zero
      actual_type == IF HasField(single, kTypeNameFieldNumber)
                     THEN LastField(single, kTypeNameFieldNumber).str ELSE ""
  IN  IF BlobSize(blob) > kMaxMessageLength
        THEN [status |-> "Message has size larger than the maximum", out |-> <<>>]
      ELSE IF DecodeIsRepeated(blob)
        THEN [status |-> "Cannot handle nested repeated messages", out |-> <<>>]
      ELSE IF type # FromInt32(schema_type)
        THEN [status |-> "Message field has wrong wire type", out |-> <<>>]
      ELSE IF actual_type # message_type
        THEN [status |-> "Field has wrong type", out |-> <<>>]
      ELSE IF ~HasField(single, kProtobufFieldNumber)
        THEN [status |-> "Message has no proto bytes", out |-> <<>>]
      ELSE [status |-> "ok", out |-> BytesOf(LastField(single, kProtobufFieldNumber))]

\* ValidateSingleNonEmptyMessage: the status, and *out
ValidateSingleNonEmptyMessage(blob, schema_type, message_type) ==
  LET single == DecodeBytes(blob, kSingleFieldNumber)
      type == IF HasField(single, kTypeFieldNumber)
              THEN LowWord(LastField(single, kTypeFieldNumber).int) ELSE I64Zero
      actual_type == IF HasField(single, kTypeNameFieldNumber)
                     THEN LastField(single, kTypeNameFieldNumber).str ELSE ""
  IN  IF BlobSize(blob) > kMaxMessageLength
        THEN [status |-> "Message has size larger than the maximum", out |-> <<>>]
      ELSE IF DecodeIsRepeated(blob)
        THEN [status |-> "Cannot handle nested repeated messages", out |-> <<>>]
      ELSE IF type # FromInt32(schema_type)
        THEN [status |-> "Message field has wrong wire type", out |-> <<>>]
      ELSE IF actual_type # message_type
        THEN [status |-> "Field has wrong type", out |-> <<>>]
      ELSE IF ~HasField(single, kProtobufFieldNumber)
        THEN [status |-> "Message has no proto bytes", out |-> <<>>]
      ELSE IF BytesEmpty(LastField(single, kProtobufFieldNumber))
        THEN [status |-> "Field has zero size", out |-> <<>>]
      ELSE [status |-> "ok", out |-> BytesOf(LastField(single, kProtobufFieldNumber))]

\* ProtoBuilder::AppendLong, the switch on field->type()
WriteLong(message, field, value) ==
  IF field.type \in {"TYPE_INT32", "TYPE_INT64", "TYPE_UINT32", "TYPE_BOOL"}
    THEN OkStatus(AppendVarInt(message, field.number, value))
  ELSE IF field.type = "TYPE_ENUM"
    THEN IF ~FindDescriptorIdx(field.resolved_type_name)
           THEN ErrStatus("Unable to find enum type", message)
         ELSE IF ~FindEnumString(PoolDescriptor(field.resolved_type_name),
                                 CastInt32(value))
           THEN ErrStatus("Invalid enum value", message)
         ELSE OkStatus(AppendVarInt(message, field.number, value))
  ELSE IF field.type \in {"TYPE_SINT32", "TYPE_SINT64"}
    THEN OkStatus(AppendSignedVarInt(message, field.number, value))
  ELSE IF field.type \in {"TYPE_FIXED32", "TYPE_SFIXED32", "TYPE_FIXED64",
                          "TYPE_SFIXED64"}
    \* one call for the four kinds, its argument an int64_t
    THEN OkStatus(AppendFixed(message, field.number, 64, "int", value, DblZero))
  ELSE IF field.type = "TYPE_UINT64"
    THEN ErrStatus("uint64 is not supported", message)
  ELSE ErrStatus("Tried to write value of type long", message)

\* a lookup failure that has already written to the buffer
AppendLong_WritesBeforeLookup(message, descriptor, field_name, value, is_inside_repeated) ==
  LET field == FindFieldByName(descriptor, field_name) IN
  IF field = NoField
    THEN ErrStatus("Field not found", AppendVarInt(message, 1, value))
  ELSE IF field.is_repeated /\ ~is_inside_repeated
    THEN ErrStatus("Unexpected long value for repeated field", message)
  ELSE WriteLong(message, field, value)

\* a repeated field that takes a bare integer
AppendLong_NoRepeatedCheck(message, descriptor, field_name, value, is_inside_repeated) ==
  LET field == FindFieldByName(descriptor, field_name) IN
  IF field = NoField THEN ErrStatus("Field not found", message)
  ELSE WriteLong(message, field, value)

\* ProtoBuilder::AppendLong
AppendLong(message, descriptor, field_name, value, is_inside_repeated) ==
  LET field == FindFieldByName(descriptor, field_name) IN
  IF field = NoField THEN ErrStatus("Field not found", message)
  ELSE IF field.is_repeated /\ ~is_inside_repeated
    THEN ErrStatus("Unexpected long value for repeated field", message)
  ELSE WriteLong(message, field, value)

\* ProtoBuilder::AppendDouble, the switch on field->type()
WriteDouble(message, field, value) ==
  IF field.type = "TYPE_FLOAT"
    THEN OkStatus(AppendFixed(message, field.number, 32, "flt", I64Zero,
                              CastFloat(value)))
  ELSE IF field.type = "TYPE_DOUBLE"
    THEN OkStatus(AppendFixed(message, field.number, 64, "dbl", I64Zero, value))
  ELSE ErrStatus("Tried to write value of type double", message)

\* ProtoBuilder::AppendDouble
AppendDouble(message, descriptor, field_name, value, is_inside_repeated) ==
  LET field == FindFieldByName(descriptor, field_name) IN
  IF field = NoField THEN ErrStatus("Field not found", message)
  ELSE IF field.is_repeated /\ ~is_inside_repeated
    THEN ErrStatus("Unexpected double value for repeated field", message)
  ELSE WriteDouble(message, field, value)

\* ProtoBuilder::AppendString, the switch on field->type()
WriteString(message, field, data) ==
  IF field.type = "TYPE_STRING"
    THEN OkStatus(AppendText(message, field.number, data))
  ELSE IF field.type = "TYPE_ENUM"
    THEN IF ~FindDescriptorIdx(field.resolved_type_name)
           THEN ErrStatus("Unable to find enum type", message)
         ELSE IF ~FindEnumValue(PoolDescriptor(field.resolved_type_name), data)
           THEN ErrStatus("Invalid enum string", message)
         ELSE OkStatus(AppendVarInt(message, field.number,
                 FromInt32(EnumValueOf(PoolDescriptor(field.resolved_type_name),
                                       data))))
  ELSE ErrStatus("Tried to write value of type string", message)

\* ProtoBuilder::AppendString
AppendString(message, descriptor, field_name, data, is_inside_repeated) ==
  LET field == FindFieldByName(descriptor, field_name) IN
  IF field = NoField THEN ErrStatus("Field not found", message)
  ELSE IF field.is_repeated /\ ~is_inside_repeated
    THEN ErrStatus("Unexpected string value for repeated field", message)
  ELSE WriteString(message, field, data)

\* an empty span that is dropped instead of being written as an empty field
AppendSingleMessage_DropsEmpty(message, descriptor, field, blob) ==
  IF blob = <<>> THEN OkStatus(message)
  ELSE LET validation == ValidateSingleNonEmptyMessage(
                           blob, TypeNumber(field.type), field.resolved_type_name)
       IN IF validation.status # "ok" THEN ErrStatus(validation.status, message)
          ELSE OkStatus(AppendPayload(message, field.number, validation.out))

\* an append that embeds the envelope itself, not the payload it carries
AppendSingleMessage_WritesEnvelope(message, descriptor, field, blob) ==
  IF blob = <<>> THEN OkStatus(AppendPayload(message, field.number, <<>>))
  ELSE LET validation == ValidateSingleNonEmptyMessage(
                           blob, TypeNumber(field.type), field.resolved_type_name)
       IN IF validation.status # "ok" THEN ErrStatus(validation.status, message)
          ELSE OkStatus(AppendPayload(message, field.number, blob))

\* ProtoBuilder::AppendSingleMessage
AppendSingleMessage(message, descriptor, field, blob) ==
  IF blob = <<>> THEN OkStatus(AppendPayload(message, field.number, <<>>))
  ELSE LET validation == ValidateSingleNonEmptyMessage(
                           blob, TypeNumber(field.type), field.resolved_type_name)
       IN IF validation.status # "ok" THEN ErrStatus(validation.status, message)
          ELSE OkStatus(AppendPayload(message, field.number, validation.out))

RECURSIVE AppendBytes(_, _, _, _, _)

RECURSIVE AppendRepeatedFrom(_, _, _, _, _)
\* the loop of ProtoBuilder::AppendRepeated, from the i-th entry of the
\* RepeatedBuilderResult on: the first failing element ends it
AppendRepeatedFrom(message, descriptor, field, rep, i) ==
  IF i > Len(rep) THEN OkStatus(message)
  ELSE IF rep[i].num # kValueFieldNumber
    THEN AppendRepeatedFrom(message, descriptor, field, rep, i + 1)
  ELSE LET value == BytesOf(rep[i])
           res ==
             IF HasField(value, kIntValueFieldNumber)
               THEN AppendLong(message, descriptor, field.name,
                               LastField(value, kIntValueFieldNumber).int, TRUE)
             ELSE IF HasField(value, kDoubleValueFieldNumber)
               THEN AppendDouble(message, descriptor, field.name,
                                 LastField(value, kDoubleValueFieldNumber).dbl, TRUE)
             ELSE IF HasField(value, kStringValueFieldNumber)
               THEN AppendString(message, descriptor, field.name,
                                 LastField(value, kStringValueFieldNumber).str, TRUE)
             ELSE IF HasField(value, kBytesValueFieldNumber)
               THEN AppendBytes(message, descriptor, field.name,
                                BytesOf(LastField(value, kBytesValueFieldNumber)), TRUE)
             ELSE ErrStatus("Unknown type in repeated field", message)
       IN IF res.status # "ok" THEN res
          ELSE AppendRepeatedFrom(res.message, descriptor, field, rep, i + 1)

\* a replay that restores the buffer when an element fails
AppendRepeated_RollsBack(message, descriptor, field, blob) ==
  IF BlobSize(blob) > kMaxMessageLength
    THEN ErrStatus("Message has size larger than the maximum", message)
  ELSE IF ~DecodeIsRepeated(blob)
    THEN ErrStatus("Unexpected message value for repeated field", message)
  ELSE LET res == AppendRepeatedFrom(message, descriptor, field,
                                     DecodeBytes(blob, kRepeatedFieldNumber), 1)
       IN IF res.status # "ok" THEN ErrStatus(res.status, message) ELSE res

\* ProtoBuilder::AppendRepeated
AppendRepeated(message, descriptor, field, blob) ==
  IF BlobSize(blob) > kMaxMessageLength
    THEN ErrStatus("Message has size larger than the maximum", message)
  ELSE IF ~DecodeIsRepeated(blob)
    THEN ErrStatus("Unexpected message value for repeated field", message)
  ELSE AppendRepeatedFrom(message, descriptor, field,
                          DecodeBytes(blob, kRepeatedFieldNumber), 1)

\* ProtoBuilder::AppendBytes
AppendBytes(message, descriptor, field_name, blob, is_inside_repeated) ==
  LET field == FindFieldByName(descriptor, field_name) IN
  IF field = NoField THEN ErrStatus("Field not found", message)
  ELSE IF field.is_repeated /\ ~is_inside_repeated
    THEN AppendRepeated(message, descriptor, field, blob)
  ELSE IF field.type = "TYPE_MESSAGE"
    THEN AppendSingleMessage(message, descriptor, field, blob)
  ELSE IF blob = <<>>
    THEN ErrStatus("Tried to write zero-sized value", message)
  ELSE ErrStatus("Tried to write value of type bytes", message)

\* a null that is handed on as a zero-length byte value
AppendSqlValue_NullAsBytes(message, descriptor, field_name, value) ==
  CASE value.type = "kLong" ->
         AppendLong(message, descriptor, field_name, value.long_value, FALSE)
    [] value.type = "kDouble" ->
         AppendDouble(message, descriptor, field_name, value.double_value, FALSE)
    [] value.type = "kString" ->
         AppendString(message, descriptor, field_name, value.string_value, FALSE)
    [] value.type = "kBytes" ->
         AppendBytes(message, descriptor, field_name, value.bytes_value, FALSE)
    [] value.type = "kNull" ->
         AppendBytes(message, descriptor, field_name, <<>>, FALSE)

\* ProtoBuilder::AppendSqlValue
AppendSqlValue(message, descriptor, field_name, value) ==
  CASE value.type = "kLong" ->
         AppendLong(message, descriptor, field_name, value.long_value, FALSE)
    [] value.type = "kDouble" ->
         AppendDouble(message, descriptor, field_name, value.double_value, FALSE)
    [] value.type = "kString" ->
         AppendString(message, descriptor, field_name, value.string_value, FALSE)
    [] value.type = "kBytes" ->
         AppendBytes(message, descriptor, field_name, value.bytes_value, FALSE)
    [] value.type = "kNull" -> OkStatus(message)

\* ProtoBuilder::SerializeRaw
SerializeRaw(message) == message

\* a serialization that wraps an empty message in an envelope too
SerializeToProtoBuilderResult_WrapsEmpty(message, descriptor) ==
  LET serialized == SerializeRaw(message)
      single ==
        AppendPayload(
          AppendText(
            AppendVarInt(<<>>, kTypeFieldNumber, FromInt32(TypeNumber("TYPE_MESSAGE"))),
            kTypeNameFieldNumber, descriptor.full_name),
          kProtobufFieldNumber, serialized)
  IN AppendPayload(AppendVarInt(<<>>, kIsRepeatedFieldNumber, I64Zero),
                   kSingleFieldNumber, single)

\* ProtoBuilder::SerializeToProtoBuilderResult
SerializeToProtoBuilderResult(message, descriptor) ==
  LET serialized == SerializeRaw(message) IN
  IF serialized = <<>> THEN serialized
  ELSE LET single ==
             AppendPayload(
               AppendText(
                 AppendVarInt(<<>>, kTypeFieldNumber, FromInt32(TypeNumber("TYPE_MESSAGE"))),
                 kTypeNameFieldNumber, descriptor.full_name),
               kProtobufFieldNumber, serialized)
       IN AppendPayload(AppendVarInt(<<>>, kIsRepeatedFieldNumber, I64Zero),
                        kSingleFieldNumber, single)

(***************************************************************************)
(* RepeatedFieldBuilder: repeated_ holds the Value messages added so far   *)
(***************************************************************************)
\* RepeatedFieldBuilder::AddLong
AddLong(rb, value) ==
  [has_data |-> TRUE,
   repeated |-> AppendPayload(rb.repeated, kValueFieldNumber,
                              AppendVarInt(<<>>, kIntValueFieldNumber, value))]

\* RepeatedFieldBuilder::AddDouble
AddDouble(rb, value) ==
  [has_data |-> TRUE,
   repeated |-> AppendPayload(rb.repeated, kValueFieldNumber,
                  AppendFixed(<<>>, kDoubleValueFieldNumber, 64, "dbl", I64Zero, value))]

\* RepeatedFieldBuilder::AddString
AddString(rb, value) ==
  [has_data |-> TRUE,
   repeated |-> AppendPayload(rb.repeated, kValueFieldNumber,
                              AppendText(<<>>, kStringValueFieldNumber, value))]

\* a bytes element that leaves has_data_ as it was
AddBytes_KeepsHasData(rb, blob) ==
  [has_data |-> rb.has_data,
   repeated |-> AppendPayload(rb.repeated, kValueFieldNumber,
                              AppendPayload(<<>>, kBytesValueFieldNumber, blob))]

\* RepeatedFieldBuilder::AddBytes
AddBytes(rb, blob) ==
  [has_data |-> TRUE,
   repeated |-> AppendPayload(rb.repeated, kValueFieldNumber,
                              AppendPayload(<<>>, kBytesValueFieldNumber, blob))]

\* an accumulator that leaves a null out
AddSqlValue_SkipsNull(rb, value) ==
  CASE value.type = "kLong" -> AddLong(rb, value.long_value)
    [] value.type = "kDouble" -> AddDouble(rb, value.double_value)
    [] value.type = "kString" -> AddString(rb, value.string_value)
    [] value.type = "kBytes" -> AddBytes(rb, value.bytes_value)
    [] value.type = "kNull" -> rb

\* RepeatedFieldBuilder::AddSqlValue
AddSqlValue(rb, value) ==
  CASE value.type = "kLong" -> AddLong(rb, value.long_value)
    [] value.type = "kDouble" -> AddDouble(rb, value.double_value)
    [] value.type = "kString" -> AddString(rb, value.string_value)
    [] value.type = "kBytes" -> AddBytes(rb, value.bytes_value)
    [] value.type = "kNull" -> AddBytes(rb, <<>>)

\* RepeatedFieldBuilder::RepeatedFieldBuilder
NewRepeatedFieldBuilder == [has_data |-> FALSE, repeated |-> <<>>]

\* RepeatedFieldBuilder::SerializeToProtoBuilderResult
RepeatedSerializeToProtoBuilderResult(rb) ==
  IF ~rb.has_data THEN <<>>
  ELSE AppendVarInt(AppendPayload(<<>>, kRepeatedFieldNumber, rb.repeated),
                    kIsRepeatedFieldNumber, I64One)

(***************************************************************************)
(* Inputs                                                                  *)
(***************************************************************************)
ChildType == ".pkg.Child"

OtherType == ".pkg.Other"

IntsDescriptor ==
  [full_name |-> ".pkg.Ints",
   fields |-> <<Field("i32", 1, "TYPE_INT32", FALSE, ""),
                Field("i64", 2, "TYPE_INT64", FALSE, ""),
                Field("u32", 3, "TYPE_UINT32", FALSE, ""),
                Field("flag", 4, "TYPE_BOOL", FALSE, ""),
                Field("s32", 5, "TYPE_SINT32", FALSE, ""),
                Field("s64", 6, "TYPE_SINT64", FALSE, ""),
                Field("u64", 7, "TYPE_UINT64", FALSE, "")>>]

FixedDescriptor ==
  [full_name |-> ".pkg.Fixed",
   fields |-> <<Field("f32", 1, "TYPE_FIXED32", FALSE, ""),
                Field("sf32", 2, "TYPE_SFIXED32", FALSE, ""),
                Field("f64", 3, "TYPE_FIXED64", FALSE, ""),
                Field("sf64", 4, "TYPE_SFIXED64", FALSE, ""),
                Field("flt", 5, "TYPE_FLOAT", FALSE, ""),
                Field("dbl", 6, "TYPE_DOUBLE", FALSE, "")>>]

TextDescriptor ==
  [full_name |-> ".pkg.Text",
   fields |-> <<Field("str", 1, "TYPE_STRING", FALSE, ""),
                Field("color", 2, "TYPE_ENUM", FALSE, ".pkg.Color"),
                Field("shade", 3, "TYPE_ENUM", FALSE, ".pkg.Missing"),
                Field("raw", 4, "TYPE_BYTES", FALSE, ""),
                Field("child", 5, "TYPE_MESSAGE", FALSE, ChildType)>>]

ListsDescriptor ==
  [full_name |-> ".pkg.Lists",
   fields |-> <<Field("child", 1, "TYPE_MESSAGE", FALSE, ChildType),
                Field("ints", 2, "TYPE_INT64", TRUE, ""),
                Field("children", 3, "TYPE_MESSAGE", TRUE, ChildType),
                Field("names", 4, "TYPE_STRING", TRUE, "")>>]

Descriptors == {IntsDescriptor, FixedDescriptor, TextDescriptor, ListsDescriptor}

FieldNamesOf(descriptor) ==
  {descriptor.fields[i].name : i \in 1..Len(descriptor.fields)} \cup {"nope"}

LongValues == {I64Zero, I64One, I64MinusOne, I64Big}

\* 1.0 (a float holds it exactly) and a significand a float has to round
DblExact == <<8388608, 0>>

DblInexact == <<13421772, 429496730>>

DoubleValues == {DblExact, DblInexact}

StringValues == {"FOO", "x"}

\* a serialized Child message, and envelopes as the builders produce them
ChildRaw == AppendVarInt(<<>>, 1, I64One)

EnvChild == SerializeToProtoBuilderResult(ChildRaw, [full_name |-> ChildType])

EnvOther == SerializeToProtoBuilderResult(ChildRaw, [full_name |-> OtherType])

\* Single Envelopes no builder produces: one without the payload field, one
\* whose payload has length zero, one whose wire kind is string
EnvNoPayload ==
  AppendPayload(
    AppendVarInt(<<>>, kIsRepeatedFieldNumber, I64Zero), kSingleFieldNumber,
    AppendText(AppendVarInt(<<>>, kTypeFieldNumber, FromInt32(TypeNumber("TYPE_MESSAGE"))),
               kTypeNameFieldNumber, ChildType))

EnvEmptyPayload ==
  AppendPayload(
    AppendVarInt(<<>>, kIsRepeatedFieldNumber, I64Zero), kSingleFieldNumber,
    AppendPayload(
      AppendText(AppendVarInt(<<>>, kTypeFieldNumber, FromInt32(TypeNumber("TYPE_MESSAGE"))),
                 kTypeNameFieldNumber, ChildType),
      kProtobufFieldNumber, <<>>))

EnvWrongKind ==
  AppendPayload(
    AppendVarInt(<<>>, kIsRepeatedFieldNumber, I64Zero), kSingleFieldNumber,
    AppendPayload(
      AppendText(AppendVarInt(<<>>, kTypeFieldNumber, FromInt32(TypeNumber("TYPE_STRING"))),
                 kTypeNameFieldNumber, ChildType),
      kProtobufFieldNumber, ChildRaw))

RepInts ==
  RepeatedSerializeToProtoBuilderResult(
    AddSqlValue(AddSqlValue(NewRepeatedFieldBuilder, Long(I64One)), Long(I64Big)))

RepMixed ==
  RepeatedSerializeToProtoBuilderResult(
    AddSqlValue(AddSqlValue(NewRepeatedFieldBuilder, Long(I64One)), String("x")))

RepChildren ==
  RepeatedSerializeToProtoBuilderResult(
    AddSqlValue(AddSqlValue(NewRepeatedFieldBuilder, Bytes(EnvChild)), Null))

BlobValues ==
  {<<>>, EnvChild, EnvOther, EnvNoPayload, EnvEmptyPayload, RepInts, RepMixed,
   RepChildren}

SqlValues ==
  {Null} \cup {Long(v) : v \in LongValues} \cup {Double(d) : d \in DoubleValues}
    \cup {String(s) : s \in StringValues} \cup {Bytes(b) : b \in BlobValues}

\* the number of appends made to one builder
MaxCalls == 2

\* the number of values added to one RepeatedFieldBuilder
MaxAdds == 2

(***************************************************************************)
(* base::SplitString(text, delimiter): the non-empty pieces between        *)
(* delimiters, text being a sequence of characters                         *)
(***************************************************************************)
\* min(text.find(delimiter, start), text.size()), positions counted from 1
FindDelimiter(text, delimiter, start) ==
  LET hits == {p \in start..(Len(text) - Len(delimiter) + 1) :
                 SubSeq(text, p, p + Len(delimiter) - 1) = delimiter}
  IN IF hits = {} THEN Len(text) + 1
     ELSE CHOOSE p \in hits : \A r \in hits : p <= r

RECURSIVE SplitFrom(_, _, _)
SplitFrom(text, delimiter, start) ==
  LET next == FindDelimiter(text, delimiter, start)
      piece == IF next > start THEN <<SubSeq(text, start, next - 1)>> ELSE <<>>
  IN IF next + Len(delimiter) > Len(text) THEN piece
     ELSE piece \o SplitFrom(text, delimiter, next + Len(delimiter))

SplitString(text, delimiter) == SplitFrom(text, delimiter, 1)

(***************************************************************************)
(* TemplateReplace.  The raw text is a sequence of characters; the output  *)
(* and the substitutions are strings.                                      *)
(***************************************************************************)
\* what \s and \w match, among the characters the texts here are made of
SpaceChars == {" ", "\n", "\t"}

WordChars == {"a", "b", "c", "d", "k", "s", "u", "x", "_"}

RECURSIVE Join(_)
\* std::string(first, last)
Join(chars) == IF chars = <<>> THEN "" ELSE Head(chars) \o Join(Tail(chars))

\* the first position from p on that holds no character of the class
SkipChars(text, p, class) ==
  IF p > Len(text) THEN p
  ELSE CHOOSE q \in p..(Len(text) + 1) :
         /\ q = Len(text) + 1 \/ text[q] \notin class
         /\ \A r \in p..(q - 1) : text[r] \in class

\* the regular expression \{\{\s*(\w*)\s*\}\} tried at position p:
\* whether it matches, its group 1, and the position behind the match
MatchAt(text, p) ==
  LET q == SkipChars(text, p + 2, SpaceChars)
      r == SkipChars(text, q, WordChars)
      s == SkipChars(text, r, SpaceChars)
  IN [matched |-> /\ p + 1 <= Len(text)
                  /\ text[p] = "{" /\ text[p + 1] = "{"
                  /\ s + 1 <= Len(text)
                  /\ text[s] = "}" /\ text[s + 1] = "}",
      key |-> Join(SubSeq(text, q, r - 1)),
      end |-> s + 2]

\* std::sregex_iterator: the leftmost match from start on, 0 when there is none
NextMatch(text, start) ==
  LET hits == {p \in start..Len(text) : MatchAt(text, p).matched}
  IN IF hits = {} THEN 0 ELSE CHOOSE p \in hits : \A r \in hits : p <= r

RECURSIVE TemplateReplaceFrom(_, _, _, _)
\* the loop of TemplateReplace with start at the given position: the return
\* value, and *out
TemplateReplaceFrom(raw_text, substitutions, out, start) ==
  LET p == NextMatch(raw_text, start) IN
  IF p = 0
    THEN [ret |-> 0, out |-> out \o Join(SubSeq(raw_text, start, Len(raw_text)))]
  ELSE LET match == MatchAt(raw_text, p)
           \* the text before the match is inserted before the key is looked up
           copied == out \o Join(SubSeq(raw_text, start, p - 1))
       IN IF match.key \notin DOMAIN substitutions
            THEN [ret |-> 1, out |-> copied]
          ELSE TemplateReplaceFrom(raw_text, substitutions,
                                   copied \o substitutions[match.key], match.end)

\* TemplateReplace
TemplateReplace(raw_text, substitutions, out) ==
  TemplateReplaceFrom(raw_text, substitutions, out, 1)

(***************************************************************************)
(* Inputs of ComputeMetrics                                                *)
(***************************************************************************)
\* SqlMetricFile; has_proto_field_name is proto_field_name.has_value()
Metric(path, sql, output_table_name, has_proto_field_name, proto_field_name) ==
  [path |-> path, sql |-> sql, output_table_name |-> output_table_name,
   has_proto_field_name |-> has_proto_field_name,
   proto_field_name |-> proto_field_name]

sql_metrics ==
  <<Metric("setup.sql", <<"s">>, "", FALSE, ""),
    Metric("a.sql", <<"a", ";", "\n", "b", ";", "\n", "\n">>, "a_out", TRUE, "A"),
    Metric("b.sql", <<"c">>, "b_out", TRUE, "B"),
    Metric("n.sql", <<"d", ";", "\n">>, "n_out", TRUE, "n")>>

\* the root message: two metric messages and a plain integer field
RootDescriptor ==
  [full_name |-> ".pkg.Root",
   fields |-> <<Field("A", 1, "TYPE_MESSAGE", FALSE, ".pkg.A"),
                Field("B", 2, "TYPE_MESSAGE", FALSE, ".pkg.B"),
                Field("n", 3, "TYPE_INT64", FALSE, "")>>]

MetricNames == {"A", "B", "n", "zz"}

\* the number of metrics one call is asked for
MaxMetrics == 2

MetricLists == UNION {[1..k -> MetricNames] : k \in 0..MaxMetrics}

EngineErrors == {"no such table", "syntax error"}

EnvA == SerializeToProtoBuilderResult(ChildRaw, [full_name |-> ".pkg.A"])

EnvB == SerializeToProtoBuilderResult(ChildRaw, [full_name |-> ".pkg.B"])

\* a row of an output table: ColumnCount() and Get(0)
OutputRows ==
  [column_count : {1, 2},
   col : {Bytes(<<>>), Bytes(EnvA), Bytes(EnvB), Long(I64One)}]

\* what the iterator of an output query yields: the status after the first
\* Next(), the rows, and the status after the Next() that finds no more rows
OutputTables ==
  {[status |-> e, rows |-> <<>>, end_status |-> "ok"] : e \in EngineErrors \cup {"ok"}}
    \cup {[status |-> "ok", rows |-> <<r>>, end_status |-> e] :
            r \in OutputRows, e \in EngineErrors \cup {"ok"}}
    \cup {[status |-> "ok", rows |-> <<r, r>>, end_status |-> "ok"] : r \in OutputRows}

(***************************************************************************)
(* Inputs of TemplateReplace and RunMetric                                 *)
(***************************************************************************)
\* "s {{k}} a", "{{ k }} {{x}}", "s {{u}} a", "{{u}}", "s{{}}", "{{k}", "s"
TemplateTexts ==
  {<<"s", " ", "{", "{", "k", "}", "}", " ", "a">>,
   <<"{", "{", " ", "k", " ", "}", "}", " ", "{", "{", "x", "}", "}">>,
   <<"s", " ", "{", "{", "u", "}", "}", " ", "a">>,
   <<"{", "{", "u", "}", "}">>,
   <<"s", "{", "{", "}", "}">>,
   <<"{", "{", "k", "}">>,
   <<"s">>}

\* the maps over the keys k and x
SubstitutionMaps == UNION {[K -> {"v", "w"}] : K \in SUBSET {"k", "x"}}

\* scripts of statements: "a {{k}};\n {{x}} b;\nc", "a;\n \n;\nb {{k}};\nc" and
\* "a {{k}} {{x}}"
Scripts ==
  {<<"a", " ", "{", "{", "k", "}", "}", ";", "\n",
     " ", "{", "{", "x", "}", "}", " ", "b", ";", "\n", "c">>,
   <<"a", ";", "\n", " ", "\n", ";", "\n", "b", " ", "{", "{", "k", "}", "}",
     ";", "\n", "c">>,
   <<"a", " ", "{", "{", "k", "}", "}", " ", "{", "{", "x", "}", "}">>}

\* the statements of the longest script
MaxStatements == 3

\* the number of arguments after the path
MaxArgs == 2

ArgValues == {String("k"), String("x"), Null, Bytes(<<>>)}

\* argv of RUN_METRIC: no argument at all, or a path and what follows it
RunMetricArgs ==
  {<<>>} \cup
  {<<path>> \o rest :
     path \in {String("t.sql"), String("zz.sql"), Null},
     rest \in UNION {[1..n -> ArgValues] : n \in 0..MaxArgs}}

\* argv of UNWRAP_METRIC_PROTO(proto, message_type), well-formed or not
UnwrapArgs ==
  LET protos == {Bytes(b) : b \in BlobValues \cup {EnvWrongKind, ChildRaw}}
                  \cup {Null, String(ChildType)}
      types == {String(ChildType), String(OtherType), Null}
  IN {<<proto>> : proto \in protos}
       \cup {<<proto, type>> : proto \in protos, type \in types}
       \cup {<<proto, type, type>> : proto \in {Bytes(EnvChild)}, type \in types}

\* the descriptor BUILD_PROTO was registered with (BuildProtoContext::desc)
BuildProtoDescriptor == TextDescriptor

\* the number of arguments of one BuildProto call
MaxBuildArgs == 4

\* argv of BuildProto: field names, values, and texts that name no field
BuildProtoArgs ==
  UNION {[1..n -> {String("str"), String("child"), String("nope"), Long(I64One),
                   Bytes(EnvChild), Null}] : n \in 0..MaxBuildArgs}

(***************************************************************************)
(* State                                                                   *)
(***************************************************************************)
VARIABLES
  descriptor_,  \* ProtoBuilder::descriptor_
  message_,     \* ProtoBuilder::message_
  calls,        \* the number of AppendSqlValue calls made
  rejected,     \* how many of them named a field the descriptor lacks
  shadow,       \* the buffer had those calls never been made
  last,         \* the last call: its arguments, its status, the buffer before
  repeated_,    \* RepeatedFieldBuilder: has_data_ and the values of repeated_
  added,        \* the values passed to AddSqlValue, in call order
  serialized,   \* the result of SerializeToProtoBuilderResult, once called
  cm,           \* one call of ComputeMetrics: its arguments, locals and result
  fn,           \* the last call of an SQL function or of TemplateReplace
  agg           \* the aggregate contexts of REPEATED_FIELD, one per group

builderVars == <<descriptor_, message_, calls, rejected, shadow, last>>

repeatedVars == <<repeated_, added, serialized>>

vars == <<descriptor_, message_, calls, rejected, shadow, last, repeated_, added,
          serialized, cm, fn, agg>>

NoCall ==
  [op |-> "none", field_name |-> "", value |-> Null, status |-> "ok",
   clean_status |-> "ok", before |-> <<>>]

BuilderIdle ==
  /\ descriptor_ = IntsDescriptor
  /\ message_ = <<>>
  /\ calls = 0
  /\ rejected = 0
  /\ shadow = <<>>
  /\ last = NoCall

NotSerialized == [done |-> FALSE, bytes |-> <<>>]

\* ComputeMetrics called with the metrics to compute, before its loop
Called(metrics_to_compute) ==
  [pc |-> "loop", metrics_to_compute |-> metrics_to_compute, i |-> 1,
   queries |-> <<>>, q |-> 1, metric_builder |-> <<>>, status |-> "running",
   metrics_proto |-> [written |-> FALSE, bytes |-> <<>>],
   log |-> <<>>, tables |-> <<>>, step_failed |-> FALSE, second_row |-> FALSE,
   query_error |-> "", error_at |-> 0]

MetricsIdle == cm = Called(<<>>)

RepeatedIdle ==
  /\ repeated_ = NewRepeatedFieldBuilder
  /\ added = <<>>
  /\ serialized = NotSerialized

\* no function called yet.  A call keeps its arguments (argv), what it gave
\* to sqlite3_result_error (error) or as its result (has_result, result),
\* the field appends it made (appended), the statements it handed to
\* ExecuteQuery (executed), the number of TemplateReplace calls (expanded)
\* with the arguments and outcome of the last one (raw_text, keys,
\* out_before, out, ret), and whether it read argv[argc] (read_beyond).
NoFunction ==
  [name |-> "none", argv |-> <<>>, error |-> "", has_result |-> FALSE,
   result |-> Null, appended |-> <<>>, executed |-> <<>>, expanded |-> 0,
   raw_text |-> <<>>, keys |-> {}, out_before |-> "", out |-> "", ret |-> 0,
   read_beyond |-> FALSE]

FunctionsIdle == fn = NoFunction

\* the groups of one aggregate query
Groups == {1, 2}

\* no group has an aggregate context yet.  Of each group: whether
\* sqlite3_aggregate_context has allocated its memory (allocated), the
\* pointer kept there, 0 for nullptr (ptr), whether Final was called
\* (final_called), what the function gave as its result or error, and the
\* values its steps passed (steps).  heap holds every RepeatedFieldBuilder
\* made by new: its members, the group whose step made it, whether it was
\* deleted, how often it was serialized, whether it was used once deleted.
NoAggregate ==
  [allocated |-> [g \in Groups |-> FALSE],
   ptr |-> [g \in Groups |-> 0],
   final_called |-> [g \in Groups |-> FALSE],
   result |-> [g \in Groups |-> [kind |-> "none", bytes |-> <<>>]],
   error |-> [g \in Groups |-> ""],
   steps |-> [g \in Groups |-> <<>>],
   heap |-> <<>>]

AggregateIdle == agg = NoAggregate

(***************************************************************************)
(* ProtoBuilder: one builder over one descriptor, appended to field by     *)
(* field                                                                   *)
(***************************************************************************)
\* ProtoBuilder::ProtoBuilder
InitBuilder ==
  /\ descriptor_ \in Descriptors
  /\ message_ = <<>>
  /\ calls = 0
  /\ rejected = 0
  /\ shadow = <<>>
  /\ last = NoCall
  /\ RepeatedIdle
  /\ MetricsIdle
  /\ FunctionsIdle
  /\ AggregateIdle

\* a call of ProtoBuilder::AppendSqlValue
DoAppendSqlValue ==
  /\ calls < MaxCalls
  /\ \E field_name \in FieldNamesOf(descriptor_), value \in SqlValues :
       LET res == AppendSqlValue(message_, descriptor_, field_name, value)
           clean == AppendSqlValue(shadow, descriptor_, field_name, value)
           unknown == FindFieldByName(descriptor_, field_name) = NoField
       IN /\ message_' = res.message
          /\ shadow' = IF unknown THEN shadow ELSE clean.message
          /\ rejected' = IF unknown /\ res.status # "ok" THEN rejected + 1 ELSE rejected
          /\ last' = [op |-> "append", field_name |-> field_name, value |-> value,
                      status |-> res.status, clean_status |-> clean.status,
                      before |-> message_]
  /\ calls' = calls + 1
  /\ UNCHANGED <<descriptor_, repeatedVars, cm, fn, agg>>

\* a call of ProtoBuilder::SerializeToProtoBuilderResult; last keeps the
\* returned bytes as its value and the serialized buffer as its before
DoSerializeToProtoBuilderResult ==
  /\ last.op # "serialize"
  /\ last' = [op |-> "serialize", field_name |-> "",
              value |-> Bytes(SerializeToProtoBuilderResult(message_, descriptor_)),
              status |-> "ok", clean_status |-> "ok", before |-> message_]
  /\ UNCHANGED <<descriptor_, message_, calls, rejected, shadow, repeatedVars, cm, fn, agg>>

NextBuilder == DoAppendSqlValue \/ DoSerializeToProtoBuilderResult

SpecBuilder == InitBuilder /\ [][NextBuilder]_vars

(***************************************************************************)
(* RepeatedFieldBuilder: one accumulator, added to value by value and      *)
(* serialized once                                                         *)
(***************************************************************************)
\* RepeatedFieldBuilder::RepeatedFieldBuilder
InitRepeated ==
  BuilderIdle /\ RepeatedIdle /\ MetricsIdle /\ FunctionsIdle /\ AggregateIdle

\* a call of RepeatedFieldBuilder::AddSqlValue
DoAddSqlValue ==
  /\ ~serialized.done
  /\ Len(added) < MaxAdds
  /\ \E value \in SqlValues :
       /\ repeated_' = AddSqlValue(repeated_, value)
       /\ added' = Append(added, value)
  /\ UNCHANGED <<serialized, builderVars, cm, fn, agg>>

\* the call of RepeatedFieldBuilder::SerializeToProtoBuilderResult
DoSerializeRepeated ==
  /\ ~serialized.done
  /\ serialized' = [done |-> TRUE,
                    bytes |-> RepeatedSerializeToProtoBuilderResult(repeated_)]
  /\ UNCHANGED <<repeated_, added, builderVars, cm, fn, agg>>

\* the serialized envelope handed to a builder over the descriptor of
\* repeated fields: ProtoBuilder::ProtoBuilder, then AppendSqlValue
DoAppendSerialized ==
  /\ serialized.done
  /\ last.op = "none"
  /\ \E field_name \in {"ints", "names", "children"} :
       LET value == Bytes(serialized.bytes)
           res == AppendSqlValue(<<>>, ListsDescriptor, field_name, value)
       IN /\ descriptor_' = ListsDescriptor
          /\ message_' = res.message
          /\ last' = [op |-> "append", field_name |-> field_name, value |-> value,
                      status |-> res.status, clean_status |-> res.status,
                      before |-> <<>>]
  /\ UNCHANGED <<calls, rejected, shadow, repeatedVars, cm, fn, agg>>

NextRepeated == DoAddSqlValue \/ DoSerializeRepeated \/ DoAppendSerialized

SpecRepeated == InitRepeated /\ [][NextRepeated]_vars

(***************************************************************************)
(* ComputeMetrics: one call, a step for each query handed to the engine.   *)
(* What the engine answers is chosen freely.                               *)
(***************************************************************************)
\* std::find_if over sql_metrics
HasMetric(name) ==
  \E k \in 1..Len(sql_metrics) :
    sql_metrics[k].has_proto_field_name /\ sql_metrics[k].proto_field_name = name

FindMetric(name) ==
  sql_metrics[CHOOSE k \in 1..Len(sql_metrics) :
                /\ sql_metrics[k].has_proto_field_name
                /\ sql_metrics[k].proto_field_name = name
                /\ \A j \in 1..(k - 1) :
                     ~(sql_metrics[j].has_proto_field_name
                         /\ sql_metrics[j].proto_field_name = name)]

CurrentMetric(c) == FindMetric(c.metrics_to_compute[c.i])

\* "SELECT * FROM " + output_table_name + ";"
OutputQueryOf(metric) == <<"SELECT * FROM ", metric.output_table_name, ";">>

\* return of a non-OK status: *metrics_proto is left alone
Finish(c, status) == [c EXCEPT !.pc = "done", !.status = status, !.step_failed = TRUE]

\* the head of the loop body: the metric is looked up and its script split
LookUp(c) ==
  LET name == c.metrics_to_compute[c.i] IN
  IF ~HasMetric(name) THEN Finish(c, "Unknown metric")
  ELSE [c EXCEPT !.pc = "exec",
                 !.queries = SplitString(FindMetric(name).sql, <<";", "\n">>),
                 !.q = 1]

\* a statement whose error is passed over
AfterQuery_IgnoresError(c, status) ==
  LET logged == [c EXCEPT !.log = Append(@, [metric |-> c.i, query |-> c.queries[c.q]])]
  IN IF status # "ok"
       THEN [logged EXCEPT !.q = @ + 1, !.query_error = status,
                           !.error_at = Len(logged.log), !.step_failed = TRUE]
     ELSE [logged EXCEPT !.q = @ + 1]

\* tp->ExecuteQuery(query); Next(); RETURN_IF_ERROR(Status())
AfterQuery(c, status) ==
  LET logged == [c EXCEPT !.log = Append(@, [metric |-> c.i, query |-> c.queries[c.q]])]
  IN IF status # "ok"
       THEN [Finish(logged, status) EXCEPT !.query_error = status,
                                           !.error_at = Len(logged.log)]
     ELSE [logged EXCEPT !.q = @ + 1]

\* a second row that is not looked for
ReadOutput_IgnoresSecondRow(c, table) ==
  LET metric == CurrentMetric(c)
      field_name == metric.proto_field_name
      seen == [c EXCEPT !.log = Append(@, [metric |-> c.i, query |-> OutputQueryOf(metric)]),
                        !.tables = Append(@, table),
                        !.second_row = @ \/ Len(table.rows) >= 2]
      next == [seen EXCEPT !.pc = "loop", !.i = @ + 1]
  IN IF table.status # "ok" THEN Finish(seen, table.status)
     ELSE IF table.rows = <<>>
       \* the status AppendBytes returns is dropped
       THEN LET res == AppendBytes(c.metric_builder, RootDescriptor, field_name, <<>>, FALSE)
            IN [next EXCEPT !.metric_builder = res.message,
                            !.step_failed = @ \/ res.status # "ok"]
     ELSE IF table.rows[1].column_count # 1
       THEN Finish(seen, "Output table should have exactly one column")
     ELSE IF table.rows[1].col.type # "kBytes"
       THEN Finish(seen, "Output table column has invalid type")
     ELSE LET res == AppendSqlValue(c.metric_builder, RootDescriptor, field_name,
                                    table.rows[1].col)
              written == [seen EXCEPT !.metric_builder = res.message]
          IN IF res.status # "ok" THEN Finish(written, res.status)
             ELSE IF table.end_status # "ok" THEN Finish(written, table.end_status)
             ELSE [next EXCEPT !.metric_builder = res.message]

\* the rest of the loop body once the output query has been handed to the
\* engine: the rows are read and the value is appended to metric_builder
ReadOutput(c, table) ==
  LET metric == CurrentMetric(c)
      field_name == metric.proto_field_name
      seen == [c EXCEPT !.log = Append(@, [metric |-> c.i, query |-> OutputQueryOf(metric)]),
                        !.tables = Append(@, table),
                        !.second_row = @ \/ Len(table.rows) >= 2]
      next == [seen EXCEPT !.pc = "loop", !.i = @ + 1]
  IN IF table.status # "ok" THEN Finish(seen, table.status)
     ELSE IF table.rows = <<>>
       \* the status AppendBytes returns is dropped
       THEN LET res == AppendBytes(c.metric_builder, RootDescriptor, field_name, <<>>, FALSE)
            IN [next EXCEPT !.metric_builder = res.message,
                            !.step_failed = @ \/ res.status # "ok"]
     ELSE IF table.rows[1].column_count # 1
       THEN Finish(seen, "Output table should have exactly one column")
     ELSE IF table.rows[1].col.type # "kBytes"
       THEN Finish(seen, "Output table column has invalid type")
     ELSE LET res == AppendSqlValue(c.metric_builder, RootDescriptor, field_name,
                                    table.rows[1].col)
              written == [seen EXCEPT !.metric_builder = res.message]
          IN IF res.status # "ok" THEN Finish(written, res.status)
             ELSE IF Len(table.rows) >= 2
               THEN Finish(written, "Output table should have at most one row")
             ELSE IF table.end_status # "ok" THEN Finish(written, table.end_status)
             ELSE [next EXCEPT !.metric_builder = res.message]

\* the composite handed back wrapped in an envelope
Return_Envelope(c) ==
  [c EXCEPT !.pc = "done", !.status = "ok",
            !.metrics_proto =
              [written |-> TRUE,
               bytes |-> SerializeToProtoBuilderResult(c.metric_builder, RootDescriptor)]]

\* *metrics_proto = metric_builder.SerializeRaw(); return base::OkStatus()
Return(c) ==
  [c EXCEPT !.pc = "done", !.status = "ok",
            !.metrics_proto = [written |-> TRUE, bytes |-> SerializeRaw(c.metric_builder)]]

InitMetrics ==
  /\ BuilderIdle
  /\ RepeatedIdle
  /\ FunctionsIdle
  /\ AggregateIdle
  /\ \E metrics_to_compute \in MetricLists : cm = Called(metrics_to_compute)

CM_NextMetric ==
  /\ cm.pc = "loop"
  /\ cm.i <= Len(cm.metrics_to_compute)
  /\ cm' = LookUp(cm)
  /\ UNCHANGED <<builderVars, repeatedVars, fn, agg>>

CM_ExecuteQuery ==
  /\ cm.pc = "exec"
  /\ cm.q <= Len(cm.queries)
  /\ \E status \in EngineErrors \cup {"ok"} : cm' = AfterQuery(cm, status)
  /\ UNCHANGED <<builderVars, repeatedVars, fn, agg>>

CM_OutputQuery ==
  /\ cm.pc = "exec"
  /\ cm.q > Len(cm.queries)
  /\ \E table \in OutputTables : cm' = ReadOutput(cm, table)
  /\ UNCHANGED <<builderVars, repeatedVars, fn, agg>>

CM_Return ==
  /\ cm.pc = "loop"
  /\ cm.i > Len(cm.metrics_to_compute)
  /\ cm' = Return(cm)
  /\ UNCHANGED <<builderVars, repeatedVars, fn, agg>>

NextMetrics == CM_NextMetric \/ CM_ExecuteQuery \/ CM_OutputQuery \/ CM_Return

SpecMetrics == InitMetrics /\ [][NextMetrics]_vars

(***************************************************************************)
(* The SQL functions and TemplateReplace: each call is one step            *)
(***************************************************************************)
\* sqlite3_result_error(ctx, text, -1); return
ResultError(f, text) == [f EXCEPT !.error = text]

\* SqlValueToString.  The numeric cases (std::to_string) are left out: the
\* calls made here pass text, bytes and null only.
SqlValueToString(value) ==
  IF value.type = "kString" THEN [has_value |-> TRUE, value |-> value.string_value]
  ELSE [has_value |-> FALSE, value |-> ""]

\* base::TrimLeading
TrimLeading(text) == SubSeq(text, SkipChars(text, 1, SpaceChars), Len(text))

RECURSIVE ReadSubstitutions(_, _, _, _, _)
\* the loop of RunMetric over argv[i], argv[i + 1] (indices counted from 0);
\* beyond is what the read of argv[argc] yields
ReadSubstitutions(f, argv, i, substitutions, beyond) ==
  LET argc == Len(argv) IN
  IF i >= argc THEN [f |-> f, substitutions |-> substitutions]
  ELSE IF argv[i + 1].type # "kString"
    THEN [f |-> ResultError(f, "RUN_METRIC: all keys must be strings"),
          substitutions |-> substitutions]
  ELSE LET key_str == SqlValueToString(argv[i + 1])
           value_str == SqlValueToString(IF i + 1 < argc THEN argv[i + 2] ELSE beyond)
           g == [f EXCEPT !.read_beyond = @ \/ i + 1 >= argc]
       IN IF ~value_str.has_value
            THEN [f |-> ResultError(g, "RUN_METRIC: all values must be convertible to strings"),
                  substitutions |-> substitutions]
          ELSE ReadSubstitutions(
                 g, argv, i + 2,
                 [k \in DOMAIN substitutions \cup {key_str.value} |->
                    IF k = key_str.value THEN value_str.value ELSE substitutions[k]],
                 beyond)

RECURSIVE RunQueries(_, _, _, _, _)
\* the loop of RunMetric over the statements of the script, from the j-th
\* on; the engine fails the fail_at-th statement it is handed
RunQueries(f, queries, j, substitutions, fail_at) ==
  IF j > Len(queries) THEN [f EXCEPT !.has_result = TRUE, !.result = Null]
  ELSE LET trimmed == TrimLeading(queries[j]) IN
       IF trimmed = <<>> THEN RunQueries(f, queries, j + 1, substitutions, fail_at)
       ELSE LET replaced == TemplateReplace(trimmed, substitutions, "")
                g == [f EXCEPT !.expanded = @ + 1, !.raw_text = trimmed,
                               !.out_before = "", !.out = replaced.out,
                               !.ret = replaced.ret]
                h == [g EXCEPT !.executed = Append(@, replaced.out)]
            IN IF replaced.ret # 0
                 THEN ResultError(g, "RUN_METRIC: Error when performing substitutions")
               ELSE IF Len(h.executed) = fail_at
                 THEN ResultError(h, "RUN_METRIC: Error when running file")
               ELSE RunQueries(h, queries, j + 1, substitutions, fail_at)

\* RunMetric
RunMetric(metrics, argv, beyond, fail_at) ==
  LET f == [NoFunction EXCEPT !.name = "RunMetric", !.argv = argv] IN
  IF Len(argv) = 0 \/ argv[1].type # "kString"
    THEN ResultError(f, "RUN_METRIC: Invalid arguments")
  ELSE IF ~\E k \in 1..Len(metrics) : metrics[k].path = argv[1].string_value
    THEN ResultError(f, "RUN_METRIC: Unknown filename provided")
  ELSE LET metric == metrics[CHOOSE k \in 1..Len(metrics) :
                               /\ metrics[k].path = argv[1].string_value
                               /\ \A n \in 1..(k - 1) :
                                    metrics[n].path # argv[1].string_value]
           read == ReadSubstitutions(f, argv, 1, [k \in {} |-> ""], beyond)
       IN IF read.f.error # "" THEN read.f
          ELSE RunQueries([read.f EXCEPT !.keys = DOMAIN read.substitutions],
                          SplitString(metric.sql, <<";", "\n">>), 1,
                          read.substitutions, fail_at)

\* sqlite3_result_blob(ctx, data, size, ...); return
ResultBlob(f, bytes) == [f EXCEPT !.has_result = TRUE, !.result = Bytes(bytes)]

\* an unwrapping that hands the empty blob to the validation
UnwrapMetricProto_ValidatesEmpty(argv) ==
  LET f == [NoFunction EXCEPT !.name = "UnwrapMetricProto", !.argv = argv] IN
  IF Len(argv) # 2
    THEN ResultError(f, "UNWRAP_METRIC_PROTO: Expected exactly proto and message type as arguments")
  ELSE IF argv[1].type # "kBytes"
    THEN ResultError(f, "UNWRAP_METRIC_PROTO: proto is not a blob")
  ELSE IF argv[2].type # "kString"
    THEN ResultError(f, "UNWRAP_METRIC_PROTO: message type is not string")
  ELSE LET validation == ValidateSingleNonEmptyMessage(
                           argv[1].bytes_value, TypeNumber("TYPE_MESSAGE"),
                           argv[2].string_value)
       IN IF validation.status # "ok"
            THEN ResultError(f, "UNWRAP_METRICS_PROTO: " \o validation.status)
          ELSE ResultBlob(f, validation.out)

\* UnwrapMetricProto
UnwrapMetricProto(argv) ==
  LET f == [NoFunction EXCEPT !.name = "UnwrapMetricProto", !.argv = argv] IN
  IF Len(argv) # 2
    THEN ResultError(f, "UNWRAP_METRIC_PROTO: Expected exactly proto and message type as arguments")
  ELSE IF argv[1].type # "kBytes"
    THEN ResultError(f, "UNWRAP_METRIC_PROTO: proto is not a blob")
  ELSE IF argv[2].type # "kString"
    THEN ResultError(f, "UNWRAP_METRIC_PROTO: message type is not string")
  ELSE IF argv[1].bytes_value = <<>> THEN ResultBlob(f, <<>>)
  ELSE LET validation == ValidateSingleNonEmptyMessage(
                           argv[1].bytes_value, TypeNumber("TYPE_MESSAGE"),
                           argv[2].string_value)
       IN IF validation.status # "ok"
            THEN ResultError(f, "UNWRAP_METRICS_PROTO: " \o validation.status)
          ELSE ResultBlob(f, validation.out)

\* a call of UNWRAP_METRIC_PROTO
DoUnwrapMetricProto ==
  /\ fn.name = "none"
  /\ \E argv \in UnwrapArgs : fn' = UnwrapMetricProto(argv)
  /\ UNCHANGED <<builderVars, repeatedVars, cm, agg>>

RECURSIVE BuildPairs_SkipsFailedPair(_, _, _, _)
\* a loop that goes on to the next pair when an append fails
BuildPairs_SkipsFailedPair(f, descriptor, i, message) ==
  IF i >= Len(f.argv)
    THEN ResultBlob(f, SerializeToProtoBuilderResult(message, descriptor))
  ELSE IF f.argv[i + 1].type # "kString"
    THEN ResultError(f, "BuildProto: Invalid args")
  ELSE LET status == AppendSqlValue(message, descriptor, f.argv[i + 1].string_value,
                                    f.argv[i + 2])
           g == [f EXCEPT !.appended =
                   Append(@, [key |-> f.argv[i + 1].string_value,
                              value |-> f.argv[i + 2], status |-> status.status])]
       IN BuildPairs_SkipsFailedPair(g, descriptor, i + 2, status.message)

RECURSIVE BuildPairs(_, _, _, _)
\* the loop of BuildProto over argv[i], argv[i + 1] (indices counted from
\* 0) with the builder's buffer, and what follows the loop
BuildPairs(f, descriptor, i, message) ==
  IF i >= Len(f.argv)
    THEN ResultBlob(f, SerializeToProtoBuilderResult(message, descriptor))
  ELSE IF f.argv[i + 1].type # "kString"
    THEN ResultError(f, "BuildProto: Invalid args")
  ELSE LET status == AppendSqlValue(message, descriptor, f.argv[i + 1].string_value,
                                    f.argv[i + 2])
           g == [f EXCEPT !.appended =
                   Append(@, [key |-> f.argv[i + 1].string_value,
                              value |-> f.argv[i + 2], status |-> status.status])]
       IN IF status.status # "ok" THEN ResultError(g, status.status)
          ELSE BuildPairs(g, descriptor, i + 2, status.message)

\* BuildProto
BuildProto(descriptor, argv) ==
  LET f == [NoFunction EXCEPT !.name = "BuildProto", !.argv = argv] IN
  IF Len(argv) % 2 # 0 THEN ResultError(f, "Invalid number of args to BuildProto")
  ELSE BuildPairs(f, descriptor, 0, <<>>)

\* a call of the BuildProto function of one descriptor
DoBuildProto ==
  /\ fn.name = "none"
  /\ \E argv \in BuildProtoArgs : fn' = BuildProto(BuildProtoDescriptor, argv)
  /\ UNCHANGED <<builderVars, repeatedVars, cm, agg>>

\* a call of TemplateReplace
DoTemplateReplace ==
  /\ fn.name = "none"
  /\ \E raw_text \in TemplateTexts, substitutions \in SubstitutionMaps,
        out \in {"", "o:"} :
       LET replaced == TemplateReplace(raw_text, substitutions, out) IN
       fn' = [NoFunction EXCEPT !.name = "TemplateReplace", !.expanded = 1,
                                !.raw_text = raw_text,
                                !.keys = DOMAIN substitutions,
                                !.out_before = out, !.out = replaced.out,
                                !.ret = replaced.ret]
  /\ UNCHANGED <<builderVars, repeatedVars, cm, agg>>

\* a call of RUN_METRIC(path, key, value, ...) over the metric files and one
\* script of templates
DoRunMetric ==
  /\ fn.name = "none"
  /\ \E argv \in RunMetricArgs, script \in Scripts, beyond \in {Null, String("k")},
        fail_at \in 0..MaxStatements :
       fn' = RunMetric(Append(sql_metrics, Metric("t.sql", script, "", FALSE, "")),
                       argv, beyond, fail_at)
  /\ UNCHANGED <<builderVars, repeatedVars, cm, agg>>

InitFunctions ==
  BuilderIdle /\ RepeatedIdle /\ MetricsIdle /\ FunctionsIdle /\ AggregateIdle

NextFunctions ==
  DoTemplateReplace \/ DoRunMetric \/ DoUnwrapMetricProto \/ DoBuildProto

SpecFunctions == InitFunctions /\ [][NextFunctions]_vars
(***************************************************************************)
(* Composition: the envelope a builder returns is the argument of the      *)
(* BuildProto function of a message with a field of the builder's type, or *)
(* of UNWRAP_METRIC_PROTO                                                  *)
(***************************************************************************)
\* a message with one non-repeated message field of the descriptor's type
ParentOf(descriptor) ==
  [full_name |-> ".pkg.Parent",
   fields |-> <<Field("inner", 1, "TYPE_MESSAGE", FALSE, descriptor.full_name)>>]

\* the builder is serialized and its result handed on as an SQL value
DoCompose ==
  /\ fn.name = "none"
  /\ LET value == Bytes(SerializeToProtoBuilderResult(message_, descriptor_)) IN
       /\ last' = [op |-> "serialize", field_name |-> "", value |-> value,
                   status |-> "ok", clean_status |-> "ok", before |-> message_]
       /\ \/ fn' = BuildProto(ParentOf(descriptor_), <<String("inner"), value>>)
          \/ fn' = UnwrapMetricProto(<<value, String(descriptor_.full_name)>>)
  /\ UNCHANGED <<descriptor_, message_, calls, rejected, shadow, repeatedVars, cm, agg>>

\* an append to a builder not yet serialized: BuildProto serializes its
\* builder once, after the last append, and then drops it
DoAppendToOpenBuilder == fn.name = "none" /\ DoAppendSqlValue

NextCompose == DoAppendToOpenBuilder \/ DoCompose

SpecCompose == InitBuilder /\ [][NextCompose]_vars


(***************************************************************************)
(* The aggregate function REPEATED_FIELD: the engine calls Step for every  *)
(* row of a group and Final once when the group ends; groups may be        *)
(* interleaved.                                                            *)
(***************************************************************************)
\* the number of rows of one group
MaxSteps == 2

\* argv of a step: one value, or a wrong number of arguments
StepArgs ==
  LET values == {Long(I64One), String("x"), Null} IN
  {<<>>} \cup {<<v>> : v \in values} \cup {<<v, v>> : v \in {Null}}

\* new RepeatedFieldBuilder()
NewObject(g) ==
  [rb |-> NewRepeatedFieldBuilder, group |-> g, deleted |-> FALSE,
   serialized |-> 0, used_deleted |-> FALSE]

\* a step that makes a new accumulator every time
RepeatedFieldStep_AlwaysNew(a, g, argv) ==
  IF Len(argv) # 1
    THEN [a EXCEPT !.error[g] = "RepeatedField: only expected one arg"]
  ELSE LET heap == Append(a.heap, NewObject(g))
           p == Len(heap)
       IN [a EXCEPT !.allocated[g] = TRUE,
                    !.ptr[g] = p,
                    !.steps[g] = Append(@, argv[1]),
                    !.heap = [heap EXCEPT ![p].rb = AddSqlValue(@, argv[1]),
                                          ![p].used_deleted = @ \/ heap[p].deleted]]

\* RepeatedFieldStep
RepeatedFieldStep(a, g, argv) ==
  IF Len(argv) # 1
    THEN [a EXCEPT !.error[g] = "RepeatedField: only expected one arg"]
  ELSE LET needs_init == a.ptr[g] = 0
           heap == IF needs_init THEN Append(a.heap, NewObject(g)) ELSE a.heap
           p == IF needs_init THEN Len(heap) ELSE a.ptr[g]
       IN [a EXCEPT !.allocated[g] = TRUE,
                    !.ptr[g] = p,
                    !.steps[g] = Append(@, argv[1]),
                    !.heap = [heap EXCEPT ![p].rb = AddSqlValue(@, argv[1]),
                                          ![p].used_deleted = @ \/ heap[p].deleted]]

\* RepeatedFieldFinal; the engine frees the group's context after it
RepeatedFieldFinal(a, g) ==
  LET called == [a EXCEPT !.final_called[g] = TRUE, !.allocated[g] = FALSE,
                          !.ptr[g] = 0]
      p == a.ptr[g]
  IN IF ~a.allocated[g] THEN [called EXCEPT !.result[g] = [kind |-> "null", bytes |-> <<>>]]
     ELSE LET raw == RepeatedSerializeToProtoBuilderResult(a.heap[p].rb)
              freed == [called EXCEPT !.heap[p].serialized = @ + 1,
                                      !.heap[p].deleted = TRUE,
                                      !.heap[p].used_deleted = @ \/ a.heap[p].deleted]
          IN IF raw = <<>> THEN [freed EXCEPT !.result[g] = [kind |-> "null", bytes |-> <<>>]]
             ELSE [freed EXCEPT !.result[g] = [kind |-> "blob", bytes |-> raw]]

InitAggregate ==
  BuilderIdle /\ RepeatedIdle /\ MetricsIdle /\ FunctionsIdle /\ AggregateIdle

\* the engine calls Step with a row of a group that has not ended
AggStep ==
  /\ \E g \in Groups, argv \in StepArgs :
       /\ ~agg.final_called[g]
       /\ Len(agg.steps[g]) < MaxSteps
       /\ agg' = RepeatedFieldStep(agg, g, argv)
  /\ UNCHANGED <<builderVars, repeatedVars, cm, fn>>

\* the engine ends a group
AggFinal ==
  /\ \E g \in Groups :
       /\ ~agg.final_called[g]
       /\ agg' = RepeatedFieldFinal(agg, g)
  /\ UNCHANGED <<builderVars, repeatedVars, cm, fn>>

NextAggregate == AggStep \/ AggFinal

SpecAggregate == InitAggregate /\ [][NextAggregate]_vars

(***************************************************************************)
(* Properties of ProtoBuilder (SpecBuilder)                                *)
(***************************************************************************)
LastField_ == FindFieldByName(descriptor_, last.field_name)

LastAppended == last.op = "append"

\* the entries the last call added behind the buffer it found
NewEntries == SubSeq(message_, Len(last.before) + 1, Len(message_))

KeepsOldEntries ==
  /\ Len(message_) >= Len(last.before)
  /\ SubSeq(message_, 1, Len(last.before)) = last.before

\* C1: an append of an Int64, Float64, text or bytes value whose field name
\* the descriptor does not resolve returns an error and leaves the buffer as
\* it was; the buffer never holds anything from such a call, and every call
\* returns what it would have returned had those calls not been made.
C1_UnknownFieldLeavesBuilder ==
  /\ (LastAppended /\ last.value.type # "kNull" /\ LastField_ = NoField)
       => (last.status # "ok" /\ message_ = last.before)
  /\ message_ = shadow
  /\ last.status = last.clean_status

\* a valid append that succeeded after a call with an unknown name failed
C1_Witness ==
  /\ rejected > 0
  /\ LastAppended /\ last.status = "ok" /\ last.value.type # "kNull"
  /\ LastField_ # NoField
  /\ Len(message_) = 1

\* C6: appending Null returns success and leaves serialize_raw as it was,
\* whatever the field and whatever the buffer holds.
C6_NullIsNoOp ==
  (LastAppended /\ last.value.type = "kNull")
    => (last.status = "ok" /\ SerializeRaw(message_) = SerializeRaw(last.before))

\* Null appended to a field of the descriptor, the buffer not empty
C6_Witness ==
  /\ LastAppended /\ last.value.type = "kNull"
  /\ LastField_ # NoField
  /\ last.before # <<>>

\* the Value messages of a Repeated Envelope, in envelope order
EnvelopeElements(blob) ==
  LET rep == DecodeBytes(blob, kRepeatedFieldNumber) IN
  SelectSeq(rep, LAMBDA e : e.num = kValueFieldNumber)

\* the payload a Single Envelope carries
EnvelopePayload(blob) ==
  BytesOf(LastField(DecodeBytes(blob, kSingleFieldNumber), kProtobufFieldNumber))

\* entry is the wire entry of the envelope element elem in a field of this type
EntryHoldsElement(entry, elem, type) ==
  LET value == BytesOf(elem) IN
  CASE type = "TYPE_INT64" ->
         /\ HasField(value, kIntValueFieldNumber)
         /\ entry.wt = "varint"
         /\ entry.int = LastField(value, kIntValueFieldNumber).int
    [] type = "TYPE_STRING" ->
         /\ HasField(value, kStringValueFieldNumber)
         /\ entry.wt = "len"
         /\ entry.str = LastField(value, kStringValueFieldNumber).str
    [] type = "TYPE_MESSAGE" ->
         /\ HasField(value, kBytesValueFieldNumber)
         /\ entry.wt = "len"
         /\ LET bytes == BytesOf(LastField(value, kBytesValueFieldNumber)) IN
            IF bytes = <<>> THEN BytesEmpty(entry)
            ELSE BytesOf(entry) = EnvelopePayload(bytes)
    [] OTHER -> FALSE

\* C8: a non-null value appended to a repeated field without inside_repeated
\* succeeds only if it is a bytes value that decodes as a Repeated Envelope,
\* and then every element is written, one wire entry each, in envelope
\* order; an Int64, Float64 or text value is an error that leaves the buffer
\* as it was.
C8_RepeatedTakesEnvelopeOnly ==
  (LastAppended /\ LastField_ # NoField /\ LastField_.is_repeated
     /\ last.value.type # "kNull")
    => /\ last.status = "ok" =>
            /\ last.value.type = "kBytes"
            /\ DecodeIsRepeated(last.value.bytes_value)
            /\ KeepsOldEntries
            /\ LET elems == EnvelopeElements(last.value.bytes_value) IN
               /\ Len(NewEntries) = Len(elems)
               /\ \A j \in 1..Len(elems) :
                    /\ NewEntries[j].num = LastField_.number
                    /\ EntryHoldsElement(NewEntries[j], elems[j], LastField_.type)
       /\ last.value.type \in {"kLong", "kDouble", "kString"}
            => (last.status # "ok" /\ message_ = last.before)

\* an envelope of two elements replayed into a repeated field
C8_Witness ==
  /\ LastAppended /\ last.status = "ok"
  /\ LastField_ # NoField /\ LastField_.is_repeated
  /\ last.value.type = "kBytes"
  /\ Len(EnvelopeElements(last.value.bytes_value)) = 2
  /\ Len(NewEntries) = 2
  /\ NewEntries[1] # NewEntries[2]

\* what a conforming decoder reads from a message for a field of the given
\* kind: the last entry under the field's number whose wire type is the one
\* the kind declares
WireTypeOf(type) ==
  IF type \in {"TYPE_INT32", "TYPE_INT64", "TYPE_UINT32", "TYPE_BOOL",
               "TYPE_SINT32", "TYPE_SINT64", "TYPE_ENUM"} THEN "varint"
  ELSE IF type \in {"TYPE_FIXED32", "TYPE_SFIXED32", "TYPE_FLOAT"} THEN "fixed32"
  ELSE IF type \in {"TYPE_FIXED64", "TYPE_SFIXED64", "TYPE_DOUBLE"} THEN "fixed64"
  ELSE "len"

Readable(message, field) ==
  \E i \in 1..Len(message) :
    message[i].num = field.number /\ message[i].wt = WireTypeOf(field.type)

ReadEntry(message, field) ==
  message[CHOOSE i \in 1..Len(message) :
            /\ message[i].num = field.number /\ message[i].wt = WireTypeOf(field.type)
            /\ \A j \in (i + 1)..Len(message) :
                 ~(message[j].num = field.number
                     /\ message[j].wt = WireTypeOf(field.type))]

\* the value read back, as the SqlValue it would be
ReadBack(message, field) ==
  LET e == ReadEntry(message, field) IN
  CASE field.type = "TYPE_INT32" -> Long(FromInt32(CastInt32(e.int)))
    [] field.type = "TYPE_INT64" -> Long(e.int)
    [] field.type = "TYPE_UINT32" -> Long(LowWord(e.int))
    [] field.type = "TYPE_BOOL" -> Long(IF e.int = I64Zero THEN I64Zero ELSE I64One)
    [] field.type = "TYPE_SINT32" -> Long(ZigZagDecode(LowWord(e.int)))
    [] field.type = "TYPE_SINT64" -> Long(ZigZagDecode(e.int))
    [] field.type = "TYPE_FIXED32" -> Long(LowWord(e.int))
    [] field.type = "TYPE_FIXED64" -> Long(e.int)
    [] field.type = "TYPE_FLOAT" -> Double(e.dbl)
    [] field.type = "TYPE_DOUBLE" -> Double(e.dbl)
    [] field.type = "TYPE_STRING" -> String(e.str)

\* the value is one the field's kind can hold
Representable(value, type) ==
  CASE type = "TYPE_INT32" -> FromInt32(CastInt32(value.long_value)) = value.long_value
    [] type = "TYPE_SINT32" -> FromInt32(CastInt32(value.long_value)) = value.long_value
    [] type = "TYPE_UINT32" -> LowWord(value.long_value) = value.long_value
    [] type = "TYPE_FIXED32" -> LowWord(value.long_value) = value.long_value
    [] type = "TYPE_BOOL" -> value.long_value \in {I64Zero, I64One}
    [] type = "TYPE_FLOAT" -> CastFloat(value.double_value) = value.double_value
    [] OTHER -> TRUE

RoundTripKind(value, type) ==
  \/ /\ value.type = "kLong"
     /\ type \in {"TYPE_INT32", "TYPE_INT64", "TYPE_UINT32", "TYPE_BOOL", "TYPE_SINT32",
                  "TYPE_SINT64", "TYPE_FIXED32", "TYPE_FIXED64"}
  \/ value.type = "kDouble" /\ type \in {"TYPE_FLOAT", "TYPE_DOUBLE"}
  \/ value.type = "kString" /\ type = "TYPE_STRING"

\* C9: an Int64 appended to an int32, int64, uint32, bool, sint32, sint64,
\* fixed32 or fixed64 field, a Float64 appended to a float or double field
\* and a text appended to a string field is read back from serialize_raw by
\* a conforming decoder of the field's kind as the value that was appended.
\* Stated for the values the kind can hold, the only ones that can come back.
C9_RoundTrip ==
  (LastAppended /\ LastField_ # NoField /\ ~LastField_.is_repeated
     /\ RoundTripKind(last.value, LastField_.type)
     /\ Representable(last.value, LastField_.type))
    => /\ last.status = "ok"
       /\ Readable(SerializeRaw(message_), LastField_)
       /\ ReadBack(SerializeRaw(message_), LastField_) = last.value

\* C9 without the fixed32 kind: the part of the round trip the code keeps
C9_RoundTripButFixed32 ==
  (LastField_ # NoField /\ LastField_.type # "TYPE_FIXED32") => C9_RoundTrip

\* C10: an empty byte span appended to a non-repeated message field succeeds
\* and writes exactly one length-delimited entry of length zero under the
\* field's number: the field reads as present, and the serialization differs
\* from the one before the append.
C10_EmptySpanIsPresentEmpty ==
  (LastAppended /\ last.value = Bytes(<<>>) /\ LastField_ # NoField
     /\ LastField_.type = "TYPE_MESSAGE" /\ ~LastField_.is_repeated)
    => /\ last.status = "ok"
       /\ KeepsOldEntries
       /\ Len(NewEntries) = 1
       /\ NewEntries[1].num = LastField_.number
       /\ NewEntries[1].wt = "len"
       /\ BytesEmpty(NewEntries[1])
       /\ HasField(SerializeRaw(message_), LastField_.number)
       /\ SerializeRaw(message_) # SerializeRaw(last.before)

\* the empty span written to a message field the buffer did not hold yet
C10_Witness ==
  /\ LastAppended /\ last.value = Bytes(<<>>) /\ last.status = "ok"
  /\ LastField_ # NoField /\ LastField_.type = "TYPE_MESSAGE"
  /\ ~LastField_.is_repeated
  /\ ~HasField(last.before, LastField_.number)
  /\ HasField(message_, LastField_.number)

\* the SingleBuilderResult of an envelope, and what it declares
EnvelopeSingle(blob) == DecodeBytes(blob, kSingleFieldNumber)

IsSingleEnvelope(blob) == ~DecodeIsRepeated(blob) /\ HasField(blob, kSingleFieldNumber)

EnvelopeTypeName(blob) ==
  IF HasField(EnvelopeSingle(blob), kTypeNameFieldNumber)
  THEN LastField(EnvelopeSingle(blob), kTypeNameFieldNumber).str ELSE ""

EnvelopeWireKind(blob) ==
  IF HasField(EnvelopeSingle(blob), kTypeFieldNumber)
  THEN LastField(EnvelopeSingle(blob), kTypeFieldNumber).int ELSE I64Zero

\* the last call appended a non-empty Single Envelope to a message field
LastAppendedEnvelope ==
  /\ LastAppended /\ last.value.type = "kBytes" /\ last.value.bytes_value # <<>>
  /\ IsSingleEnvelope(last.value.bytes_value)
  /\ LastField_ # NoField /\ LastField_.type = "TYPE_MESSAGE"
  /\ ~LastField_.is_repeated

\* C11: a non-empty Single Envelope appended to a message field fails when
\* the type name it declares is not the field's resolved type name, also when
\* its wire kind is message, and the failed append leaves the buffer as it was.
C11_WrongTypeNameFails ==
  (LastAppendedEnvelope
     /\ EnvelopeTypeName(last.value.bytes_value) # LastField_.resolved_type_name)
    => (last.status # "ok" /\ message_ = last.before)

\* an envelope of wire kind message and of another type name, appended to a
\* buffer that already holds an entry
C11_Witness ==
  /\ LastAppendedEnvelope
  /\ EnvelopeWireKind(last.value.bytes_value) = FromInt32(TypeNumber("TYPE_MESSAGE"))
  /\ EnvelopeTypeName(last.value.bytes_value) = OtherType
  /\ LastField_.resolved_type_name = ChildType
  /\ last.before # <<>>
  /\ last.status = "Field has wrong type"

\* the member values an enum declares, as 64-bit integers
EnumMemberValues(enum_desc) == {FromInt32(m[2]) : m \in enum_desc.members}

\* the last call appended to a non-repeated enum field of the descriptor
LastAppendedToEnum ==
  /\ LastAppended /\ LastField_ # NoField
  /\ LastField_.type = "TYPE_ENUM" /\ ~LastField_.is_repeated

\* the last call wrote exactly one varint entry, under its field's number
WroteOneVarInt ==
  /\ KeepsOldEntries
  /\ Len(NewEntries) = 1
  /\ NewEntries[1].num = LastField_.number
  /\ NewEntries[1].wt = "varint"

\* C12: on an enum field whose type resolves, an integer that is not the
\* value of a declared member fails and writes nothing, a text that is a
\* declared member name succeeds and writes that member's integer as a
\* varint, and any other text fails; on an enum field whose type does not
\* resolve every append of a value fails.
C12_EnumMembersOnly ==
  LastAppendedToEnum =>
    IF FindDescriptorIdx(LastField_.resolved_type_name)
    THEN LET enum_desc == PoolDescriptor(LastField_.resolved_type_name) IN
         /\ (last.value.type = "kLong"
               /\ last.value.long_value \notin EnumMemberValues(enum_desc))
              => (last.status # "ok" /\ message_ = last.before)
         /\ (last.value.type = "kString"
               /\ \E m \in enum_desc.members : m[1] = last.value.string_value)
              => /\ last.status = "ok"
                 /\ WroteOneVarInt
                 /\ \E m \in enum_desc.members :
                      /\ m[1] = last.value.string_value
                      /\ NewEntries[1].int = FromInt32(m[2])
         /\ (last.value.type = "kString"
               /\ \A m \in enum_desc.members : m[1] # last.value.string_value)
              => (last.status # "ok" /\ message_ = last.before)
    ELSE last.value.type # "kNull" => (last.status # "ok" /\ message_ = last.before)

LastSerialized == last.op = "serialize"

\* C13: serialize_as_envelope returns the empty span when serialize_raw is
\* empty; otherwise it returns a Single Envelope that says is_repeated =
\* false, has wire kind message, is named by the descriptor's full name and
\* carries the bytes of serialize_raw as its payload.
C13_EnvelopeOfBuilder ==
  LastSerialized =>
    LET env == last.value.bytes_value
        raw == SerializeRaw(last.before)
    IN IF raw = <<>> THEN env = <<>>
       ELSE /\ HasField(env, kIsRepeatedFieldNumber)
            /\ IsSingleEnvelope(env)
            /\ EnvelopeWireKind(env) = FromInt32(TypeNumber("TYPE_MESSAGE"))
            /\ EnvelopeTypeName(env) = descriptor_.full_name
            /\ HasField(EnvelopeSingle(env), kProtobufFieldNumber)
            /\ EnvelopePayload(env) = raw

\* a builder serialized after two successful appends
C13_Witness ==
  /\ LastSerialized
  /\ Len(SerializeRaw(last.before)) = 2
  /\ last.value.bytes_value # <<>>
  /\ EnvelopePayload(last.value.bytes_value) = message_

\* the last call appended a Single Envelope of wire kind message and of the
\* field's type name to a message field
LastAppendedMatchingEnvelope ==
  /\ LastAppendedEnvelope
  /\ EnvelopeWireKind(last.value.bytes_value) = FromInt32(TypeNumber("TYPE_MESSAGE"))
  /\ EnvelopeTypeName(last.value.bytes_value) = LastField_.resolved_type_name

\* C17 as claimed: a Single Envelope without a payload is an error, one with
\* a payload of length zero is valid and is written as a present but empty
\* message.
C17_EmptyPayloadAccepted ==
  LastAppendedMatchingEnvelope =>
    IF ~HasField(EnvelopeSingle(last.value.bytes_value), kProtobufFieldNumber)
      THEN last.status # "ok" /\ message_ = last.before
    ELSE EnvelopePayload(last.value.bytes_value) = <<>>
           => /\ last.status = "ok"
              /\ KeepsOldEntries
              /\ Len(NewEntries) = 1
              /\ NewEntries[1].num = LastField_.number
              /\ BytesEmpty(NewEntries[1])

\* C17: a Single Envelope without a payload and one with a payload of
\* length zero are both errors, told apart by the status only ("Message has
\* no proto bytes", "Field has zero size"); neither writes anything.
C17_EmptyPayloadIsAnErrorToo ==
  LastAppendedMatchingEnvelope =>
    IF ~HasField(EnvelopeSingle(last.value.bytes_value), kProtobufFieldNumber)
      THEN last.status = "Message has no proto bytes" /\ message_ = last.before
    ELSE EnvelopePayload(last.value.bytes_value) = <<>>
           => (last.status = "Field has zero size" /\ message_ = last.before)

\* an envelope with a payload of length zero appended after another entry
C17_Witness ==
  /\ LastAppendedMatchingEnvelope
  /\ HasField(EnvelopeSingle(last.value.bytes_value), kProtobufFieldNumber)
  /\ EnvelopePayload(last.value.bytes_value) = <<>>
  /\ last.before # <<>>
  /\ last.status = "Field has zero size"

\* C18: the field name is resolved first whatever the value is: an append of
\* Null, Int64, Float64, text or bytes under a name the descriptor does not
\* resolve returns an error.
C18_UnknownFieldFailsForEveryValue ==
  (LastAppended /\ LastField_ = NoField) => last.status # "ok"

\* C19: an Int64 appended to a fixed-width field is written at the width the
\* field declares: a 32-bit entry for fixed32 and sfixed32, a 64-bit entry
\* for fixed64 and sfixed64.
C19_FixedWidthAsDeclared ==
  (LastAppended /\ last.value.type = "kLong" /\ LastField_ # NoField
     /\ ~LastField_.is_repeated
     /\ LastField_.type \in {"TYPE_FIXED32", "TYPE_SFIXED32", "TYPE_FIXED64",
                             "TYPE_SFIXED64"})
    => /\ last.status = "ok"
       /\ KeepsOldEntries
       /\ Len(NewEntries) = 1
       /\ NewEntries[1].num = LastField_.number
       /\ NewEntries[1].wt =
            (IF LastField_.type \in {"TYPE_FIXED32", "TYPE_SFIXED32"}
             THEN "fixed32" ELSE "fixed64")

\* C20: an Int64 v appended to an enum field succeeds exactly when v itself,
\* all 64 bits of it, is the value of a declared member, and the varint then
\* written is the value of a declared member.
C20_EnumByFullValue ==
  (LastAppendedToEnum /\ last.value.type = "kLong"
     /\ FindDescriptorIdx(LastField_.resolved_type_name))
    => LET values == EnumMemberValues(PoolDescriptor(LastField_.resolved_type_name)) IN
       /\ last.status = "ok" <=> last.value.long_value \in values
       /\ last.status = "ok" => (WroteOneVarInt /\ NewEntries[1].int \in values)

(***************************************************************************)
(* Properties of RepeatedFieldBuilder (SpecRepeated)                       *)
(***************************************************************************)
\* the SqlValue a Value message of the envelope holds
ElementValue(elem) ==
  LET value == BytesOf(elem) IN
  IF HasField(value, kIntValueFieldNumber)
    THEN Long(LastField(value, kIntValueFieldNumber).int)
  ELSE IF HasField(value, kDoubleValueFieldNumber)
    THEN Double(LastField(value, kDoubleValueFieldNumber).dbl)
  ELSE IF HasField(value, kStringValueFieldNumber)
    THEN String(LastField(value, kStringValueFieldNumber).str)
  ELSE IF HasField(value, kBytesValueFieldNumber)
    THEN Bytes(BytesOf(LastField(value, kBytesValueFieldNumber)))
  ELSE Null

\* the element an added value is kept as: Null is kept as empty bytes
KeptAs(value) == IF value.type = "kNull" THEN Bytes(<<>>) ELSE value

\* C7: an accumulator that received no add call finalizes to an empty
\* result; one that received n >= 1 add calls finalizes to a Repeated
\* Envelope (is_repeated set) of exactly n elements, the j-th holding the
\* value of the j-th add call.
C7_FinalizeKeepsCallOrder ==
  serialized.done
    => /\ added = <<>> => serialized.bytes = <<>>
       /\ Len(added) >= 1 =>
            /\ DecodeIsRepeated(serialized.bytes)
            /\ LET elems == EnvelopeElements(serialized.bytes) IN
               /\ Len(elems) = Len(added)
               /\ \A j \in 1..Len(added) : ElementValue(elems[j]) = KeptAs(added[j])

\* two different values added, then finalized
C7_Witness ==
  /\ serialized.done
  /\ Len(added) = 2
  /\ added[1] # added[2]
  /\ Len(EnvelopeElements(serialized.bytes)) = 2

\* the added value is one a field of this kind takes as an element
FitsField(value, field) ==
  CASE field.type = "TYPE_INT64" -> value.type = "kLong"
    [] field.type = "TYPE_STRING" -> value.type = "kString"
    [] field.type = "TYPE_MESSAGE" ->
         /\ value.type = "kBytes"
         /\ \/ value.bytes_value = <<>>
            \/ /\ IsSingleEnvelope(value.bytes_value)
               /\ EnvelopeWireKind(value.bytes_value) = FromInt32(TypeNumber("TYPE_MESSAGE"))
               /\ EnvelopeTypeName(value.bytes_value) = field.resolved_type_name
               /\ HasField(EnvelopeSingle(value.bytes_value), kProtobufFieldNumber)
               /\ EnvelopePayload(value.bytes_value) # <<>>
    [] OTHER -> FALSE

\* a Null added to the accumulator sets has_data_ and is kept, at its
\* position, as an element holding a bytes value of length zero
NullIsKeptAsEmptyBytes ==
  /\ added # <<>> => repeated_.has_data
  /\ serialized.done /\ added # <<>> =>
       LET elems == EnvelopeElements(serialized.bytes) IN
       /\ Len(elems) = Len(added)
       /\ \A j \in 1..Len(added) :
            added[j] = Null =>
              /\ HasField(BytesOf(elems[j]), kBytesValueFieldNumber)
              /\ BytesEmpty(LastField(BytesOf(elems[j]), kBytesValueFieldNumber))

\* the serialized envelope was replayed into a repeated field and every
\* value added was a Null or a value of the field's kind
ReplayedFitting ==
  /\ serialized.done /\ added # <<>> /\ LastAppended
  /\ \A j \in 1..Len(added) : added[j] = Null \/ FitsField(added[j], LastField_)

\* the replay wrote one entry per added value, an empty one for each Null
OneEntryPerElement ==
  /\ last.status = "ok"
  /\ Len(message_) = Len(added)
  /\ \A j \in 1..Len(added) :
       /\ message_[j].num = LastField_.number
       /\ added[j] = Null => (message_[j].wt = "len" /\ BytesEmpty(message_[j]))

\* C22 as claimed: a Null added to the accumulator is kept as an empty bytes
\* element, and the replay of the envelope into a repeated field writes one
\* entry per element, an empty one for each null placeholder.
C22_NullPlaceholderIsWritten ==
  /\ NullIsKeptAsEmptyBytes
  /\ ReplayedFitting => OneEntryPerElement

\* C22: a Null added to the accumulator is kept as an empty bytes element;
\* the replay into a repeated message field writes one entry per element,
\* an empty one for each null placeholder; the replay into a repeated field
\* of another kind fails at the first null placeholder ("Tried to write
\* zero-sized value") after the entries of the elements before it.
C22_NullPlaceholderInMessageFieldsOnly ==
  /\ NullIsKeptAsEmptyBytes
  /\ ReplayedFitting =>
       IF LastField_.type = "TYPE_MESSAGE" \/ \A j \in 1..Len(added) : added[j] # Null
         THEN OneEntryPerElement
       ELSE LET k == CHOOSE j \in 1..Len(added) :
                       added[j] = Null /\ \A i \in 1..(j - 1) : added[i] # Null
            IN /\ last.status = "Tried to write zero-sized value"
               /\ Len(message_) = k - 1

\* a message and a Null added, and both written to a repeated message field
C22_Witness ==
  /\ ReplayedFitting
  /\ LastField_.type = "TYPE_MESSAGE"
  /\ Len(added) = 2 /\ added[1] # Null /\ added[2] = Null
  /\ last.status = "ok"
  /\ Len(message_) = 2 /\ ~BytesEmpty(message_[1]) /\ BytesEmpty(message_[2])

(***************************************************************************)
(* Properties of the replay of a Repeated Envelope (SpecBuilder)           *)
(***************************************************************************)
\* the last call replayed a Repeated Envelope into a repeated field
LastReplayed ==
  /\ LastAppended /\ LastField_ # NoField /\ LastField_.is_repeated
  /\ last.value.type = "kBytes" /\ DecodeIsRepeated(last.value.bytes_value)

\* the status the append of one element of the envelope returns
ReplayStatus(elem) ==
  LET value == ElementValue(elem) IN
  CASE value.type = "kLong" ->
         AppendLong(<<>>, descriptor_, last.field_name, value.long_value, TRUE).status
    [] value.type = "kDouble" ->
         AppendDouble(<<>>, descriptor_, last.field_name, value.double_value, TRUE).status
    [] value.type = "kString" ->
         AppendString(<<>>, descriptor_, last.field_name, value.string_value, TRUE).status
    [] value.type = "kBytes" ->
         AppendBytes(<<>>, descriptor_, last.field_name, value.bytes_value, TRUE).status
    [] OTHER -> "Unknown type in repeated field"

\* C21: when the replay of a Repeated Envelope into a repeated field fails
\* at an element, the append returns that element's error, the entries of
\* the elements before it stay in the buffer, one each and in order, nothing
\* of it or of a later element is written, and serialize_raw differs from
\* the one before the call when an element came before the failing one.
C21_ReplayKeepsPartialWrites ==
  LET elems == EnvelopeElements(last.value.bytes_value) IN
  (LastReplayed /\ \E j \in 1..Len(elems) : ReplayStatus(elems[j]) # "ok")
    => LET k == CHOOSE j \in 1..Len(elems) :
                  /\ ReplayStatus(elems[j]) # "ok"
                  /\ \A i \in 1..(j - 1) : ReplayStatus(elems[i]) = "ok"
       IN /\ last.status = ReplayStatus(elems[k])
          /\ KeepsOldEntries
          /\ Len(NewEntries) = k - 1
          /\ \A j \in 1..(k - 1) :
               /\ NewEntries[j].num = LastField_.number
               /\ EntryHoldsElement(NewEntries[j], elems[j], LastField_.type)
          /\ k > 1 => SerializeRaw(message_) # SerializeRaw(last.before)

\* a replay that failed at its second element, into a buffer that held an
\* entry already
C21_Witness ==
  /\ LastReplayed
  /\ last.status # "ok"
  /\ last.before # <<>>
  /\ Len(EnvelopeElements(last.value.bytes_value)) = 2
  /\ Len(message_) = Len(last.before) + 1

(***************************************************************************)
(* Properties of ComputeMetrics (SpecMetrics)                              *)
(***************************************************************************)
Returned == cm.pc = "done"

RootField(name) == FindFieldByName(RootDescriptor, name)

\* C2: if any step fails for a requested metric (lookup, statement, output
\* query, row and column validation, or the append of its value or of its
\* zero-row placeholder to the root builder), ComputeMetrics returns a non-OK
\* status and does not write *metrics_proto; it never returns OK with a
\* composite that lacks the field of a requested metric.
C2_AnyFailureAborts ==
  Returned
    => /\ cm.step_failed => (cm.status # "ok" /\ ~cm.metrics_proto.written)
       /\ cm.status = "ok" =>
            \A j \in 1..Len(cm.metrics_to_compute) :
              HasField(cm.metrics_proto.bytes, RootField(cm.metrics_to_compute[j]).number)

\* the entry is the one the table of a metric calls for under the field
EntryOfTable(entry, table, field) ==
  /\ entry.num = field.number
  /\ entry.wt = "len"
  /\ IF table.rows = <<>> THEN BytesEmpty(entry)
     ELSE LET blob == table.rows[1].col.bytes_value IN
          IF blob = <<>> THEN BytesEmpty(entry)
          ELSE BytesOf(entry) = EnvelopePayload(blob)

\* C3: when every step of every requested metric succeeds, the output is the
\* raw serialization of the root message, holding for each requested metric,
\* in request order, one entry under the metric's field: empty when its
\* output table has no row, the payload of the row's blob when it has one.
C3_CompositeInRequestOrder ==
  (Returned /\ cm.status = "ok" /\ ~cm.step_failed)
    => /\ cm.metrics_proto.written
       /\ Len(cm.metrics_proto.bytes) = Len(cm.metrics_to_compute)
       /\ Len(cm.tables) = Len(cm.metrics_to_compute)
       /\ \A j \in 1..Len(cm.metrics_to_compute) :
            EntryOfTable(cm.metrics_proto.bytes[j], cm.tables[j],
                         RootField(cm.metrics_to_compute[j]))

\* two metrics done: no row for the first, one row with a payload for the
\* second
C3_Witness ==
  /\ Returned /\ cm.status = "ok" /\ ~cm.step_failed
  /\ Len(cm.metrics_to_compute) = 2
  /\ cm.metrics_to_compute[1] # cm.metrics_to_compute[2]
  /\ cm.tables[1].rows = <<>>
  /\ Len(cm.tables[2].rows) = 1
  /\ cm.tables[2].rows[1].col.bytes_value # <<>>
  /\ BytesOf(cm.metrics_proto.bytes[2]) = ChildRaw

\* C4: if the output table of a requested metric yields a second row,
\* ComputeMetrics returns an error and does not write the output vector,
\* however many metrics were processed before.
C4_SecondRowIsAnError ==
  cm.second_row => (Returned /\ cm.status # "ok" /\ ~cm.metrics_proto.written)

\* a second row for the second metric, the first one appended already
C4_Witness ==
  /\ cm.second_row
  /\ cm.i = 2
  /\ Len(cm.metric_builder) = 2
  /\ cm.status = "Output table should have at most one row"

RECURSIVE ExpectedQueries(_, _)
\* the queries a call hands to the engine when none fails: for each metric
\* in request order its statements in textual order, then its output query
ExpectedQueries(names, j) ==
  IF j > Len(names) \/ ~HasMetric(names[j]) THEN <<>>
  ELSE LET metric == FindMetric(names[j])
           statements == SplitString(metric.sql, <<";", "\n">>)
       IN [k \in 1..Len(statements) |-> [metric |-> j, query |-> statements[k]]]
            \o <<[metric |-> j, query |-> OutputQueryOf(metric)]>>
            \o ExpectedQueries(names, j + 1)

IsPrefix(a, b) == Len(a) <= Len(b) /\ a = SubSeq(b, 1, Len(a))

\* C5: the queries reach the engine in the order of the requested metrics,
\* each metric's statements in textual order before its output query; once a
\* statement reports an error nothing more is executed and that error is
\* what ComputeMetrics returns.
C5_SequentialAndStopsAtError ==
  /\ IsPrefix(cm.log, ExpectedQueries(cm.metrics_to_compute, 1))
  /\ cm.query_error # "" =>
       /\ Returned
       /\ cm.status = cm.query_error
       /\ Len(cm.log) = cm.error_at
       /\ ~cm.metrics_proto.written

\* the second statement of the second metric fails
C5_Witness ==
  /\ cm.query_error # ""
  /\ cm.i = 2
  /\ cm.q = 2
  /\ Len(cm.log) >= 4
  /\ Returned

\* the statements of the scripts among the queries handed to the engine
StatementsExecuted ==
  {cm.log[j].query : j \in {k \in 1..Len(cm.log) :
      cm.log[k].query # OutputQueryOf(FindMetric(cm.metrics_to_compute[cm.log[k].metric]))}}

\* C24: every statement ComputeMetrics hands to the engine is non-blank and
\* has no leading whitespace: a fragment of the split script that is empty
\* or holds whitespace only is never executed.
C24_OnlyTrimmedStatements ==
  \A query \in StatementsExecuted :
    /\ query # <<>>
    /\ \E p \in 1..Len(query) : query[p] \notin SpaceChars
    /\ query[1] \notin SpaceChars

(***************************************************************************)
(* Properties of TemplateReplace and the SQL functions (SpecFunctions)     *)
(***************************************************************************)
\* the text holds a placeholder whose identifier the mapping lacks
HasUnmappedPlaceholder(text, keys) ==
  \E p \in 1..Len(text) : MatchAt(text, p).matched /\ MatchAt(text, p).key \notin keys

\* C14: the expansion of a template that holds a placeholder whose
\* identifier the mapping lacks reports failure and leaves the output string
\* exactly as it was before the call, and RunMetric hands no statement
\* rendered from that template to the engine.
C14_FailedExpansionWritesNothing ==
  (fn.name \in {"TemplateReplace", "RunMetric"} /\ fn.expanded > 0
     /\ HasUnmappedPlaceholder(fn.raw_text, fn.keys))
    => /\ fn.ret # 0
       /\ fn.out = fn.out_before
       /\ fn.name = "RunMetric"
            => (fn.error # "" /\ ~fn.has_result /\ Len(fn.executed) = fn.expanded - 1)

\* the last call was UNWRAP_METRIC_PROTO(blob, expected type)
Unwrapped ==
  /\ fn.name = "UnwrapMetricProto" /\ Len(fn.argv) = 2
  /\ fn.argv[1].type = "kBytes" /\ fn.argv[2].type = "kString"

\* C15: unwrapping (blob, expected type) returns the empty blob for the
\* empty blob; it returns the payload when the blob is a Single Envelope of
\* wire kind message whose type name is the expected one and whose payload
\* is present and not empty; in every other case it reports an error and
\* returns nothing.
C15_UnwrapReturnsPayloadOrError ==
  /\ Unwrapped =>
       LET blob == fn.argv[1].bytes_value IN
       IF blob = <<>>
         THEN fn.error = "" /\ fn.has_result /\ fn.result = Bytes(<<>>)
       ELSE IF /\ IsSingleEnvelope(blob)
               /\ EnvelopeWireKind(blob) = FromInt32(TypeNumber("TYPE_MESSAGE"))
               /\ EnvelopeTypeName(blob) = fn.argv[2].string_value
               /\ HasField(EnvelopeSingle(blob), kProtobufFieldNumber)
               /\ EnvelopePayload(blob) # <<>>
         THEN fn.error = "" /\ fn.has_result /\ fn.result = Bytes(EnvelopePayload(blob))
       ELSE fn.error # "" /\ ~fn.has_result
  /\ (fn.name = "UnwrapMetricProto" /\ ~Unwrapped) => (fn.error # "" /\ ~fn.has_result)

\* an envelope of the expected type unwrapped to the message it carries
C15_Witness ==
  /\ Unwrapped
  /\ fn.argv[1].bytes_value = EnvChild
  /\ fn.has_result /\ fn.result = Bytes(ChildRaw)

RECURSIVE AppendedUpTo(_, _)
\* the buffer of a builder that was given the first n pairs of argv in
\* argument order
AppendedUpTo(argv, n) ==
  IF n = 0 THEN <<>>
  ELSE AppendSqlValue(AppendedUpTo(argv, n - 1), BuildProtoDescriptor,
                      argv[2 * n - 1].string_value, argv[2 * n]).message

\* C16: BuildProto with an odd number of arguments reports an error before
\* any append is made.  With an even number the pairs are appended in
\* argument order, each to the buffer the pairs before it left; the first
\* pair that fails ends the call with an error and no blob, and when none
\* fails the result is the envelope of the buffer all pairs built.
C16_BuildProtoPairsInOrder ==
  fn.name = "BuildProto" =>
    LET argc == Len(fn.argv)
        n == Len(fn.appended)
    IN IF argc % 2 # 0 THEN fn.error # "" /\ ~fn.has_result /\ n = 0
       ELSE /\ 2 * n <= argc
            /\ \A j \in 1..n :
                 /\ fn.argv[2 * j - 1] = String(fn.appended[j].key)
                 /\ fn.argv[2 * j] = fn.appended[j].value
                 /\ fn.appended[j].status =
                      AppendSqlValue(AppendedUpTo(fn.argv, j - 1), BuildProtoDescriptor,
                                     fn.appended[j].key, fn.appended[j].value).status
                 /\ j < n => fn.appended[j].status = "ok"
            /\ IF n > 0 /\ fn.appended[n].status # "ok"
                 THEN fn.error = fn.appended[n].status /\ ~fn.has_result
               ELSE IF 2 * n < argc
                 THEN /\ fn.argv[2 * n + 1].type # "kString"
                      /\ fn.error # "" /\ ~fn.has_result
               ELSE /\ fn.error = "" /\ fn.has_result
                    /\ fn.result =
                         Bytes(SerializeToProtoBuilderResult(AppendedUpTo(fn.argv, n),
                                                             BuildProtoDescriptor))

\* two pairs appended to different fields, and the envelope of both returned
C16_Witness ==
  /\ fn.name = "BuildProto" /\ Len(fn.argv) = 4
  /\ fn.has_result /\ fn.result # Bytes(<<>>)
  /\ Len(EnvelopePayload(fn.result.bytes_value)) = 2
  /\ EnvelopePayload(fn.result.bytes_value)[1].num = 5
  /\ EnvelopePayload(fn.result.bytes_value)[2].num = 1

(***************************************************************************)
(* Properties of REPEATED_FIELD (SpecAggregate)                            *)
(***************************************************************************)
\* the accumulators made by the steps of a group
ObjectsOf(g) == {p \in 1..Len(agg.heap) : agg.heap[p].group = g}

\* the envelope holds the values the steps of the group passed, in order
HoldsSteps(bytes, g) ==
  LET elems == EnvelopeElements(bytes) IN
  /\ Len(elems) = Len(agg.steps[g])
  /\ \A j \in 1..Len(elems) : ElementValue(elems[j]) = KeptAs(agg.steps[g][j])

\* C23: of each group, the first step makes exactly one accumulator and
\* every later step adds to it; Final serializes it once and deletes it; a
\* Final with no step before it gives NULL and makes no accumulator; no
\* accumulator is serialized twice or used once deleted, and the result of a
\* group holds the values of its own steps only.
C23_OneAccumulatorPerGroup ==
  /\ \A p \in 1..Len(agg.heap) :
       agg.heap[p].serialized <= 1 /\ ~agg.heap[p].used_deleted
  /\ \A g \in Groups :
       /\ Cardinality(ObjectsOf(g)) = (IF agg.steps[g] = <<>> THEN 0 ELSE 1)
       /\ (agg.steps[g] # <<>> /\ ~agg.final_called[g]) =>
            /\ agg.ptr[g] \in ObjectsOf(g)
            /\ ~agg.heap[agg.ptr[g]].deleted
            /\ agg.heap[agg.ptr[g]].serialized = 0
            /\ HoldsSteps(RepeatedSerializeToProtoBuilderResult(agg.heap[agg.ptr[g]].rb), g)
       /\ (agg.final_called[g] /\ agg.steps[g] = <<>>) => agg.result[g].kind = "null"
       /\ (agg.final_called[g] /\ agg.steps[g] # <<>>) =>
            /\ agg.result[g].kind = "blob"
            /\ DecodeIsRepeated(agg.result[g].bytes)
            /\ HoldsSteps(agg.result[g].bytes, g)
            /\ \A p \in ObjectsOf(g) :
                 agg.heap[p].deleted /\ agg.heap[p].serialized = 1
       /\ ~agg.final_called[g] => agg.result[g].kind = "none"

\* two groups of two rows each, the second group stepped first, both ended
\* with different results
C23_Witness ==
  /\ agg.final_called[1] /\ agg.final_called[2]
  /\ Len(agg.steps[1]) = 2 /\ Len(agg.steps[2]) = 2
  /\ agg.steps[1] # agg.steps[2]
  /\ agg.heap[1].group = 2
  /\ agg.result[1].bytes # agg.result[2].bytes

(***************************************************************************)
(* Properties of RunMetric's arguments (SpecFunctions)                     *)
(***************************************************************************)
\* C25: RunMetric reads only the arguments it was given: for every argc >= 1,
\* an even argc (a last key with no value after it) included, no argv[j]
\* with j >= argc is read while the substitutions are built.
C25_ReadsOnlyItsArguments ==
  (fn.name = "RunMetric" /\ Len(fn.argv) >= 1) => ~fn.read_beyond

(***************************************************************************)
(* Properties of the composition of builders (SpecCompose)                 *)
(***************************************************************************)
\* the builder was serialized and its result handed on just now
Composed == LastSerialized /\ fn.name \in {"BuildProto", "UnwrapMetricProto"}

\* the buffer of the parent message BuildProto built, read from its result
ParentRaw == DecodeBytes(EnvelopeSingle(fn.result.bytes_value), kProtobufFieldNumber)

\* C26: what a builder over type T returns as its envelope is accepted by an
\* append to a non-repeated message field of resolved type T and by the
\* unwrapping with expected type T.  When the builder's raw serialization is
\* not empty the embedded or returned payload equals it; when it is empty
\* the field is written present but empty.  The builder returns no Single
\* Envelope whose payload has length zero.
C26_CompositionRoundTrips ==
  Composed =>
    LET raw == SerializeRaw(last.before)
        envelope == last.value.bytes_value
    IN /\ fn.error = "" /\ fn.has_result
       /\ envelope # <<>> =>
            /\ IsSingleEnvelope(envelope)
            /\ HasField(EnvelopeSingle(envelope), kProtobufFieldNumber)
            /\ ~BytesEmpty(LastField(EnvelopeSingle(envelope), kProtobufFieldNumber))
       /\ fn.name = "UnwrapMetricProto" => fn.result = Bytes(raw)
       /\ fn.name = "BuildProto" =>
            /\ Len(fn.appended) = 1 /\ fn.appended[1].status = "ok"
            /\ Len(ParentRaw) = 1
            /\ ParentRaw[1].num = 1 /\ ParentRaw[1].wt = "len"
            /\ IF raw = <<>> THEN BytesEmpty(ParentRaw[1])
               ELSE BytesOf(ParentRaw[1]) = raw

\* a builder of two entries embedded in its parent
C26_Witness ==
  /\ Composed /\ fn.name = "BuildProto"
  /\ Len(last.before) = 2
  /\ fn.has_result
  /\ BytesOf(ParentRaw[1]) = last.before

====
